---- MODULE Spec2Model ----
(***************************************************************************)
(* Model of the natural-language graph query assistant                     *)
(* (src/api/lambda/aiQuery.js): the Lambda handler, the Bedrock adapter    *)
(* invokeBedrock and the Gremlin executor executeGremlin; and of the       *)
(* email-subscriber custom resource                                        *)
(* (src/lib/constructs/parameter-email-subscriber.js).                     *)
(*                                                                         *)
(* Texts are TLA+ strings handled character by character, JavaScript       *)
(* values are tagged records, and the JSON conversions the handler relies  *)
(* on (JSON.parse, JSON.stringify with indent 2, template-literal string   *)
(* coercion) are computed, not assumed.                                    *)
(***************************************************************************)
EXTENDS Integers, Sequences, FiniteSets, TLC

(***************************************************************************)
(* JavaScript values.  Each type has its own payload field so that values  *)
(* of different types are comparable (and unequal).                        *)
(***************************************************************************)
Undef == [t |-> "undef"]
JNull == [t |-> "null"]
Bool(b) == [t |-> "bool", b |-> b]
Num(n) == [t |-> "num", n |-> n]
Str(s) == [t |-> "str", s |-> s]
Arr(a) == [t |-> "arr", a |-> a]
\* an object is the sequence of its own properties in insertion order
Obj(o) == [t |-> "obj", o |-> o]
Prop(k, v) == [k |-> k, v |-> v]
\* an instance of Error carrying a message
ErrorObj(m) == [t |-> "error", message |-> m]

IsStr(v) == v.t = "str"

\* ToBoolean: the falsy values are undefined, null, false, 0 and ""
Truthy(v) ==
    CASE v.t = "undef" -> FALSE
      [] v.t = "null" -> FALSE
      [] v.t = "bool" -> v.b
      [] v.t = "num" -> v.n # 0
      [] v.t = "str" -> v.s # ""
      [] OTHER -> TRUE

\* the last property named k of the pair list o (a repeated key overwrites)
RECURSIVE Lookup(_, _, _)
Lookup(o, k, n) ==
    IF n = 0 THEN Undef
    ELSE IF o[n].k = k THEN o[n].v
    ELSE Lookup(o, k, n - 1)

\* v.k for a property name k that only plain objects can own
\* (role, content, needsQuery, answer, gremlinQuery, text);
\* reading a property of undefined or null is a TypeError, reported by CanGet
CanGet(v) == v.t \notin {"undef", "null"}
Get(v, k) ==
    IF v.t = "obj" THEN Lookup(v.o, k, Len(v.o))
    ELSE IF v.t = "error" /\ k = "message" THEN Str(v.message)
    ELSE Undef

\* the message V8 gives to the TypeError of reading property k of undefined/null
PropertyTypeError(v, k) ==
    ErrorObj("Cannot read properties of "
             \o (IF v.t = "undef" THEN "undefined" ELSE "null")
             \o " (reading '" \o k \o "')")

(***************************************************************************)
(* Characters of a text.                                                   *)
(***************************************************************************)
Ch(s, i) == IF i >= 1 /\ i <= Len(s) THEN SubSeq(s, i, i) ELSE ""

\* SubSeq that tolerates a range reaching past the end
Slice(s, i, j) == IF i >= 1 /\ j <= Len(s) /\ i <= j THEN SubSeq(s, i, j) ELSE ""

\* the least element of a non-empty set of positions
Least(S) == CHOOSE i \in S : \A j \in S : i <= j
Greatest(S) == CHOOSE i \in S : \A j \in S : i >= j

\* first position >= i holding character c, 0 when there is none
IndexFrom(s, c, i) ==
    LET at == {j \in i..Len(s) : Ch(s, j) = c} IN
    IF at = {} THEN 0 ELSE Least(at)

\* last position <= i holding character c, 0 when there is none
LastIndexFrom(s, c, i) ==
    LET at == {j \in 1..i : Ch(s, j) = c} IN
    IF at = {} THEN 0 ELSE Greatest(at)

Digit == {"0", "1", "2", "3", "4", "5", "6", "7", "8", "9"}
DigitVal(c) ==
    CASE c = "0" -> 0 [] c = "1" -> 1 [] c = "2" -> 2 [] c = "3" -> 3
      [] c = "4" -> 4 [] c = "5" -> 5 [] c = "6" -> 6 [] c = "7" -> 7
      [] c = "8" -> 8 [] c = "9" -> 9

(***************************************************************************)
(* JSON.parse.  A parse step returns [ok, v, i]: the value read and the    *)
(* position after it, or Fail (the SyntaxError JSON.parse throws).         *)
(* Numbers are the integers; the escapes \b, \f and \uXXXX are outside     *)
(* the texts the model feeds it and are rejected.                          *)
(***************************************************************************)
Fail == [ok |-> FALSE]
Ok(v, i) == [ok |-> TRUE, v |-> v, i |-> i]

WhiteSpace == {" ", "\n", "\t", "\r"}

RECURSIVE SkipWs(_, _)
SkipWs(s, i) == IF Ch(s, i) \in WhiteSpace THEN SkipWs(s, i + 1) ELSE i

Unescape(e) ==
    CASE e = "\"" -> "\""
      [] e = "\\" -> "\\"
      [] e = "/" -> "/"
      [] e = "n" -> "\n"
      [] e = "t" -> "\t"
      [] e = "r" -> "\r"
      [] OTHER -> ""

\* whether the character at position j, in a string literal whose body
\* starts at i, follows an odd run of backslashes
Escaped(s, i, j) ==
    (j - 1 - Greatest({k \in (i - 1)..(j - 1) : k = i - 1 \/ Ch(s, k) # "\\"})) % 2 = 1

\* prefix followed by the text of rest, when rest was read
Prepend(prefix, rest) == IF rest.ok THEN Ok(prefix \o rest.v, 0) ELSE Fail

RECURSIVE UnescapeFrom(_)
\* raw with the escape at position b (0: none) and those after it decoded;
\* Fail on an escape that JSON does not define
UnescapeAt(raw, b) ==
    IF b = 0 THEN Ok(raw, 0)
    ELSE IF Unescape(Ch(raw, b + 1)) = "" THEN Fail
    ELSE Prepend(Slice(raw, 1, b - 1) \o Unescape(Ch(raw, b + 1)),
                 UnescapeFrom(Slice(raw, b + 2, Len(raw))))

\* the text a string literal's body denotes
UnescapeFrom(raw) == UnescapeAt(raw, IndexFrom(raw, "\\", 1))

\* the string literal read, given its decoded body and the closing quote
StrEnd(text, close) == IF text.ok THEN Ok(Str(text.v), close + 1) ELSE Fail

\* a raw control character in the body of a string literal is an error
StrDecode(raw, close) ==
    IF \E j \in 1..Len(raw) : Ch(raw, j) \in {"\n", "\t", "\r"} THEN Fail
    ELSE StrEnd(UnescapeFrom(raw), close)

\* the literal ends at the first quote that is not escaped
StrClose(s, i, quotes) ==
    IF quotes = {} THEN Fail
    ELSE StrDecode(Slice(s, i, Least(quotes) - 1), Least(quotes))

\* the string literal whose body starts at position i (after the opening quote)
StrBody(s, i) ==
    StrClose(s, i, {j \in i..Len(s) : Ch(s, j) = "\"" /\ ~Escaped(s, i, j)})

RECURSIVE Digits(_, _, _)
\* the run of digits from position i, accumulated in base 10
Digits(s, i, acc) ==
    IF Ch(s, i) \in Digit THEN Digits(s, i + 1, 10 * acc + DigitVal(Ch(s, i)))
    ELSE Ok(acc, i)

\* 0 | [1-9][0-9]*, given its digits d read from position j; a fraction or
\* exponent after it is not read
UnsignedEnd(s, j, d) ==
    IF Ch(s, j) = "0" /\ d.i > j + 1 THEN Fail
    ELSE IF Ch(s, d.i) \in {".", "e", "E"} THEN Fail
    ELSE Ok(Num(d.v), d.i)

Unsigned(s, j) == IF Ch(s, j) \in Digit THEN UnsignedEnd(s, j, Digits(s, j, 0)) ELSE Fail

Negate(r) == IF r.ok THEN Ok(Num(0 - r.v.n), r.i) ELSE Fail

\* -? (0 | [1-9][0-9]*)
NumberLit(s, i) == IF Ch(s, i) = "-" THEN Negate(Unsigned(s, i + 1)) ELSE Unsigned(s, i)

RECURSIVE ParseValue(_, _)
RECURSIVE Members(_, _, _)
RECURSIVE Elements(_, _, _)

\* after a member: a comma and the next member, or the closing brace
MembersNext(s, all, n) ==
    IF Ch(s, n) = "," THEN Members(s, SkipWs(s, n + 1), all)
    ELSE IF Ch(s, n) = "}" THEN Ok(Obj(all), n + 1)
    ELSE Fail

\* the member's value was read
MembersValue(s, acc, key, val) ==
    IF val.ok THEN MembersNext(s, Append(acc, Prop(key.v.s, val.v)), SkipWs(s, val.i))
    ELSE Fail

\* a colon at position c separates the key from the value
MembersColon(s, acc, key, c) ==
    IF Ch(s, c) = ":" THEN MembersValue(s, acc, key, ParseValue(s, SkipWs(s, c + 1)))
    ELSE Fail

\* the member's key was read
MembersKey(s, acc, key) ==
    IF key.ok THEN MembersColon(s, acc, key, SkipWs(s, key.i)) ELSE Fail

\* the members of an object from the key at position i; acc holds the
\* properties read so far
Members(s, i, acc) ==
    IF Ch(s, i) = "\"" THEN MembersKey(s, acc, StrBody(s, i + 1)) ELSE Fail

\* after an element: a comma and the next element, or the closing bracket
ElementsNext(s, all, n) ==
    IF Ch(s, n) = "," THEN Elements(s, SkipWs(s, n + 1), all)
    ELSE IF Ch(s, n) = "]" THEN Ok(Arr(all), n + 1)
    ELSE Fail

\* the element was read
ElementsValue(s, acc, val) ==
    IF val.ok THEN ElementsNext(s, Append(acc, val.v), SkipWs(s, val.i)) ELSE Fail

\* the elements of an array from the value at position i
Elements(s, i, acc) == ElementsValue(s, acc, ParseValue(s, i))

\* an object whose first token after the brace is at position j
ObjectLit(s, j) == IF Ch(s, j) = "}" THEN Ok(Obj(<<>>), j + 1) ELSE Members(s, j, <<>>)

\* an array whose first token after the bracket is at position j
ArrayLit(s, j) == IF Ch(s, j) = "]" THEN Ok(Arr(<<>>), j + 1) ELSE Elements(s, j, <<>>)

\* one JSON value starting exactly at position i
ParseValue(s, i) ==
    IF Ch(s, i) = "{" THEN ObjectLit(s, SkipWs(s, i + 1))
    ELSE IF Ch(s, i) = "[" THEN ArrayLit(s, SkipWs(s, i + 1))
    ELSE IF Ch(s, i) = "\"" THEN StrBody(s, i + 1)
    ELSE IF Ch(s, i) = "-" \/ Ch(s, i) \in Digit THEN NumberLit(s, i)
    ELSE IF Slice(s, i, i + 3) = "true" THEN Ok(Bool(TRUE), i + 4)
    ELSE IF Slice(s, i, i + 4) = "false" THEN Ok(Bool(FALSE), i + 5)
    ELSE IF Slice(s, i, i + 3) = "null" THEN Ok(JNull, i + 4)
    ELSE Fail

\* nothing but white space may follow the value
WholeText(s, r) == IF r.ok /\ SkipWs(s, r.i) = Len(s) + 1 THEN r ELSE Fail

\* JSON.parse(s): [ok |-> TRUE, v |-> value], or Fail for a SyntaxError
JsonParse(s) == WholeText(s, ParseValue(s, SkipWs(s, 1)))

(***************************************************************************)
(* JSON.stringify(value, null, 2) and String(value).                       *)
(***************************************************************************)
EscapeChar(c) ==
    CASE c = "\"" -> "\\\""
      [] c = "\\" -> "\\\\"
      [] c = "\n" -> "\\n"
      [] c = "\t" -> "\\t"
      [] c = "\r" -> "\\r"
      [] OTHER -> c

RECURSIVE EscapeFrom(_, _)
\* s from position i on, with every character that needs it escaped
EscapeFrom(s, i) ==
    LET special == {j \in i..Len(s) : EscapeChar(Ch(s, j)) # Ch(s, j)} IN
    IF special = {} THEN Slice(s, i, Len(s))
    ELSE LET j == Least(special) IN
         Slice(s, i, j - 1) \o EscapeChar(Ch(s, j)) \o EscapeFrom(s, j + 1)

\* a string literal: the text between quotes with its special characters escaped
Quote(s) == "\"" \o EscapeFrom(s, 1) \o "\""

Indent == "  "

\* an object's text around the lines of its properties
Braces(body, ind) == IF body = "" THEN "{}" ELSE "{\n" \o body \o "\n" \o ind \o "}"

RECURSIVE StringifyText(_, _)
RECURSIVE StringifyItems(_, _, _)
RECURSIVE StringifyProps(_, _, _, _)

\* the elements a[i..] of an array, one per line at indentation ind;
\* an undefined element is written null
StringifyItems(a, i, ind) ==
    ind \o (IF a[i].t = "undef" THEN "null" ELSE StringifyText(a[i], ind))
        \o (IF i = Len(a) THEN "" ELSE ",\n" \o StringifyItems(a, i + 1, ind))

\* the properties o[i..] of an object, one per line; a property whose value
\* is undefined is left out; first tells whether none was written yet
StringifyProps(o, i, ind, first) ==
    IF i > Len(o) THEN ""
    ELSE IF o[i].v.t = "undef" THEN StringifyProps(o, i + 1, ind, first)
    ELSE (IF first THEN "" ELSE ",\n")
         \o ind \o Quote(o[i].k) \o ": " \o StringifyText(o[i].v, ind)
         \o StringifyProps(o, i + 1, ind, FALSE)

\* the text of a defined value whose own line is indented by ind
StringifyText(v, ind) ==
    CASE v.t = "null" -> "null"
      [] v.t = "bool" -> (IF v.b THEN "true" ELSE "false")
      [] v.t = "num" -> ToString(v.n)
      [] v.t = "str" -> Quote(v.s)
      [] v.t = "arr" ->
            (IF Len(v.a) = 0 THEN "[]"
             ELSE "[\n" \o StringifyItems(v.a, 1, ind \o Indent) \o "\n" \o ind \o "]")
      [] v.t = "obj" -> Braces(StringifyProps(v.o, 1, ind \o Indent, TRUE), ind)
      [] OTHER -> "{}"

\* JSON.stringify(v, null, 2): a string, or undefined for undefined
JsonStringify(v) == IF v.t = "undef" THEN Undef ELSE Str(StringifyText(v, ""))

RECURSIVE JsToString(_)
RECURSIVE JoinFrom(_, _)

\* Array.prototype.join(","): null and undefined elements give the empty text
JoinFrom(a, i) ==
    IF i > Len(a) THEN ""
    ELSE (IF a[i].t \in {"undef", "null"} THEN "" ELSE JsToString(a[i]))
         \o (IF i = Len(a) THEN "" ELSE "," \o JoinFrom(a, i + 1))

\* String(v), the coercion a template literal `${v}` applies
JsToString(v) ==
    CASE v.t = "undef" -> "undefined"
      [] v.t = "null" -> "null"
      [] v.t = "bool" -> (IF v.b THEN "true" ELSE "false")
      [] v.t = "num" -> ToString(v.n)
      [] v.t = "str" -> v.s
      [] v.t = "arr" -> JoinFrom(v.a, 1)
      [] v.t = "obj" -> "[object Object]"
      [] OTHER -> "Error: " \o v.message

(***************************************************************************)
(* Inputs: the request event, the replies of the model service and the     *)
(* outcomes of the graph database.                                         *)
(***************************************************************************)
\* longest conversation history enumerated
MaxHistory == 2

\* event.arguments?.question: missing, null, empty, or a question
Questions == {Undef, JNull, Str(""), Str("How many nodes are in the graph?")}

\* roles a caller may put on a history turn
TurnRoles == {"user", "assistant", "system"}

\* the history argument the caller serialized from a list of turns with the
\* given roles; turn i carries the content "t<i>"
TurnList(roles) ==
    Arr([i \in 1..Len(roles) |->
            Obj(<<Prop("role", Str(roles[i])), Prop("content", Str("t" \o ToString(i)))>>)])

\* event.arguments?.history: missing, null, empty, texts that are not JSON,
\* JSON texts that are no list of turns, and serialized lists of turns
Histories ==
    {Undef, JNull, Str(""),
     Str("not json"), Str("[{\"role\": \"user\", "),
     Str("5"), Str("null"), Str("{}"), Str("\"ab\""), Str("[null]"), Str("[7]"),
     Str("[{\"role\": \"user\"}]"),
     Str("[{\"role\": \"user\", \"content\": null}]"),
     Str("[{\"role\": \"user\", \"content\": 5}]"),
     Str("[{\"content\": \"hi\"}, {\"role\": \"user\", \"content\": \"q1\"}]")}
    \cup {JsonStringify(TurnList(r)) :
            r \in UNION {[1..n -> TurnRoles] : n \in 0..MaxHistory}}

\* texts the model may return on the first call
ModelReplies ==
    {"{\"needsQuery\": true, \"gremlinQuery\": \"V().count().next()\", \"explanation\": \"Counts all vertices\"}",
     "Sure! {\"needsQuery\": true, \"gremlinQuery\": \"V().hasLabel('person').drop().iterate()\"} Done.",
     "{\"needsQuery\": 1, \"gremlinQuery\": \"addV('person').property('name','x').next()\"}",
     "{\"needsQuery\": true}",
     "{\"needsQuery\": false, \"answer\": \"The graph has 5 vertex labels.\", \"explanation\": \"\"}",
     "{\"needsQuery\": false, \"answer\": \"Use {braces} like this\"}",
     "{\"needsQuery\": false, \"explanation\": \"\"}",
     "{\"needsQuery\": false, \"answer\": null}",
     "{\"needsQuery\": false, \"answer\": \"\"}",
     "{\"needsQuery\": false, \"answer\": 5}",
     "{\"answer\": \"hello\"}",
     "Hello! I can help you explore the graph.",
     "Write g.V() {like this} to list vertices",
     "{\"needsQuery\": false, \"answer\": \"a\"} and {\"x\": 1}",
     "} no match {",
     "null",
     "42",
     "\"just a string\"",
     "\"a {quoted} string\"",
     "[1, 2]",
     "[{\"needsQuery\": true, \"gremlinQuery\": \"E().count().next()\"}]"}

\* texts the model may return on the second (summary) call
SummaryReplies ==
    {"There are 42 nodes in the graph.",
     "{\"needsQuery\": false, \"answer\": \"42\"}"}

\* response.output?.message?.content for a model text
ContentOf(text) == Arr(<<Obj(<<Prop("text", Str(text))>>)>>)

\* replies of the service that carry no usable text
EmptyContents == {Undef, Arr(<<>>), Arr(<<Obj(<<>>)>>), ContentOf("")}

\* what client.send may do: reject, or resolve with a response
SendOutcomes(texts) ==
    {[kind |-> "reject", error |-> ErrorObj("ThrottlingException: Too many requests")]}
    \cup {[kind |-> "response", content |-> c] :
            c \in EmptyContents \cup {ContentOf(x) : x \in texts}}

\* a result that refers to itself, which JSON.stringify rejects
Circular == [t |-> "cyclic"]

\* values a traversal may resolve to
QueryResults ==
    {Num(42),
     Arr(<<>>),
     Arr(<<Str("Doctor1"), Str("Doctor \"2\"")>>),
     Obj(<<Prop("value", Num(42)), Prop("done", Bool(FALSE))>>),
     JNull,
     Undef,
     Circular}

\* what a traversal may reject with: Error instances and a bare value
QueryErrors ==
    {ErrorObj("connection refused"),
     ErrorObj("Server error: no such step (597)"),
     Str("socket hang up")}

\* the close code the listener of createRemoteConnection tests for
PrematureClose == 1006

\* codes a close event of the connection may carry: a normal closure and the
\* premature closure
CloseCodes == {1000, PrematureClose}

\* how conn.close() may settle
CloseOutcomes ==
    {[ok |-> TRUE, v |-> Undef],
     [ok |-> FALSE,
      error |-> ErrorObj("WebSocket was closed before the connection was established")]}

\* invocations of the handler in one process
MaxRuns == 2

(***************************************************************************)
(* The pure parts of the handler.                                          *)
(***************************************************************************)
Thrown(e) == [ok |-> FALSE, error |-> e]
Returned(v) == [ok |-> TRUE, v |-> v]

\* a conversation turn as the handler builds it
Message(role, content) == [role |-> role, content |-> content]

\* error instanceof Error ? error.message : String(error)
errorMessage(error) == IF error.t = "error" THEN error.message ELSE JsToString(error)

\* the response of the `if (!question)` branch
Guidance ==
    [answer |-> Str("Please ask a question about the graph data. For example: 'Who are all the people in the graph?' or 'What products does Doctor1 use?'"),
     query |-> JNull,
     data |-> JNull]

\* the response of the outermost catch
GenericFailure(error) ==
    [answer |-> Str("Sorry, I encountered an error processing your question: "
                    \o errorMessage(error)),
     query |-> JNull,
     data |-> JNull]

\* the values `for (const entry of conversationHistory)` visits: the elements
\* of an array, the characters of a string; anything else is not iterable
Iterable(v) == v.t \in {"arr", "str"}
Entries(v) == IF v.t = "arr" THEN v.a ELSE [i \in 1..Len(v.s) |-> Str(Ch(v.s, i))]

\* the turn pushed for one history entry, its role as the caller wrote it
EntryMessageVerbatim(entry) ==
    Message(IF IsStr(Get(entry, "role")) THEN Get(entry, "role").s ELSE "assistant",
            Get(entry, "content"))

\* the turn pushed for one history entry
EntryMessage(entry) ==
    Message(IF Get(entry, "role") = Str("user") THEN "user" ELSE "assistant",
            Get(entry, "content"))

StripNothing(msgs) == msgs

CarriedMessages(last) == last

\* line 134, `const messages = []`: every invocation binds a new empty list,
\* whatever list the invocation before it (`last`) built
NewMessages(last) == <<>>

RECURSIVE StripLeading(_)
\* while (messages.length > 0 && messages[0].role !== "user") messages.shift()
StripLeading(msgs) ==
    IF Len(msgs) > 0 /\ msgs[1].role # "user" THEN StripLeading(Tail(msgs)) ELSE msgs

\* line 149 logs m.content.length of every kept turn: a content that is
\* null or undefined raises a TypeError
LogMessages(msgs) ==
    IF \E i \in 1..Len(msgs) : ~CanGet(msgs[i].content)
    THEN Thrown(PropertyTypeError(
             msgs[Least({i \in 1..Len(msgs) : ~CanGet(msgs[i].content)})].content,
             "length"))
    ELSE Returned(msgs)

\* lines 135-148: onto the list `new` that line 134 bound, one turn per entry,
\* then the question, then the shim; reading entry.role of a null or
\* undefined entry raises a TypeError
PushMessages(new, entries, question) ==
    IF \E i \in 1..Len(entries) : ~CanGet(entries[i])
    THEN Thrown(PropertyTypeError(
             entries[Least({i \in 1..Len(entries) : ~CanGet(entries[i])})], "role"))
    ELSE LogMessages(StripLeading(
             Append(new \o [i \in 1..Len(entries) |-> EntryMessage(entries[i])],
                    Message("user", question))))

\* the message list of the first model call, or the TypeError raised on the
\* way (lines 134-149)
BuildMessages(new, conversationHistory, question) ==
    IF Iterable(conversationHistory)
    THEN PushMessages(new, Entries(conversationHistory), question)
    ELSE Thrown(ErrorObj("conversationHistory is not iterable"))

\* invokeBedrock without the check for an empty reply
invokeBedrockUnchecked(sent) ==
    IF sent.kind = "reject" THEN Thrown(sent.error)
    ELSE IF sent.content \in EmptyContents THEN Returned(Str(""))
    ELSE Returned(Get(sent.content.a[1], "text"))

\* invokeBedrock after client.send settled: the first content block's text,
\* or the error thrown
invokeBedrock(sent) ==
    IF sent.kind = "reject" THEN Thrown(sent.error)
    ELSE LET output == sent.content IN
         IF ~Truthy(output) \/ Len(output.a) = 0 \/ ~Truthy(Get(output.a[1], "text"))
         THEN Thrown(ErrorObj("Empty response from Bedrock"))
         ELSE Returned(Get(output.a[1], "text"))

\* bedrockResponse.match(/\{[\s\S]*\}/): from the first { to the last }
JsonMatch(text) ==
    LET first == IndexFrom(text, "{", 1)
        last == LastIndexFrom(text, "}", Len(text))
    IN  IF first > 0 /\ last > first
        THEN [found |-> TRUE, text |-> SubSeq(text, first, last)]
        ELSE [found |-> FALSE]

\* the inner try, were the whole reply parsed after a match that does not
\* parse
ParseDirectiveBoth(text) ==
    IF JsonMatch(text).found /\ JsonParse(JsonMatch(text).text).ok
    THEN JsonParse(JsonMatch(text).text)
    ELSE JsonParse(text)

\* the inner try: parse the match when there is one, else the whole reply
ParseDirective(text) ==
    LET jsonMatch == JsonMatch(text) IN
    IF jsonMatch.found THEN JsonParse(jsonMatch.text) ELSE JsonParse(text)

ParseFallbackAsFailure(bedrockResponse) ==
    GenericFailure(ErrorObj("Unexpected token in JSON"))

\* the response of the inner catch (parseError)
ParseFallback(bedrockResponse) ==
    [answer |-> Str(bedrockResponse), query |-> JNull, data |-> JNull]

DirectAnswerNullish(parsed, bedrockResponse) ==
    [answer |-> IF Get(parsed, "answer").t \in {"undef", "null"}
                THEN Str(bedrockResponse) ELSE Get(parsed, "answer"),
     query |-> JNull,
     data |-> JNull]

\* the response of the `if (!parsed.needsQuery)` branch, were it to carry
\* the reply as data
DirectAnswerWithData(parsed, bedrockResponse) ==
    [answer |-> IF Truthy(Get(parsed, "answer"))
                THEN Get(parsed, "answer") ELSE Str(bedrockResponse),
     query |-> JNull,
     data |-> Str(bedrockResponse)]

\* the response of the `if (!parsed.needsQuery)` branch
DirectAnswer(parsed, bedrockResponse) ==
    [answer |-> IF Truthy(Get(parsed, "answer"))
                THEN Get(parsed, "answer") ELSE Str(bedrockResponse),
     query |-> JNull,
     data |-> JNull]

\* the source text `g.${queryString}` of the traversal
QueryText(gremlinQuery) == "g." \o JsToString(gremlinQuery)

TraversalFailureWithoutError(gremlinQuery, queryError) ==
    [answer |-> Str("I tried to query the graph but encountered an error. The query was: "
                    \o QueryText(gremlinQuery) \o "."),
     query |-> Str(QueryText(gremlinQuery)),
     data |-> JNull]

\* the traversal-failure response without the query
TraversalFailureWithoutQuery(gremlinQuery, queryError) ==
    [answer |-> Str("I tried to query the graph but encountered an error. The query was: "
                    \o QueryText(gremlinQuery) \o ". Error: " \o errorMessage(queryError)),
     query |-> JNull,
     data |-> JNull]

\* the response of the catch (queryError) around executeGremlin
TraversalFailure(gremlinQuery, queryError) ==
    [answer |-> Str("I tried to query the graph but encountered an error. The query was: "
                    \o QueryText(gremlinQuery) \o ". Error: " \o errorMessage(queryError)),
     query |-> Str(QueryText(gremlinQuery)),
     data |-> JNull]

\* the messages of the second model call without the conversation so far
summaryMessagesAlone(messages, gremlinQuery, resultStr) ==
    <<Message("assistant", Str("I executed the Gremlin query: " \o QueryText(gremlinQuery))),
      Message("user", Str("The query returned these results: " \o JsToString(resultStr)
                          \o "\n\nPlease provide a clear, concise natural language summary of these results to answer my original question. Do not return JSON, just a plain text answer."))>>

\* the messages of the second model call
summaryMessages(messages, gremlinQuery, resultStr) ==
    messages \o
    <<Message("assistant", Str("I executed the Gremlin query: " \o QueryText(gremlinQuery))),
      Message("user", Str("The query returned these results: " \o JsToString(resultStr)
                          \o "\n\nPlease provide a clear, concise natural language summary of these results to answer my original question. Do not return JSON, just a plain text answer."))>>

SummaryResponseUnprefixed(summary, gremlinQuery, resultStr) ==
    [answer |-> summary, query |-> gremlinQuery, data |-> resultStr]

\* the response after the summary call
SummaryResponse(summary, gremlinQuery, resultStr) ==
    [answer |-> summary, query |-> Str(QueryText(gremlinQuery)), data |-> resultStr]

\* line 197, JSON.stringify(queryResult, null, 2): the text, or the TypeError
\* a value that refers to itself raises
resultStr(queryResult) ==
    IF queryResult = Circular
    THEN Thrown(ErrorObj("Converting circular structure to JSON"))
    ELSE Returned(JsonStringify(queryResult))

FinallyResultOfClose(tried, closed) == IF closed.ok THEN tried ELSE closed

\* lines 110-117: how executeGremlin ends when its try block ended as `tried`
\* and conn.close() settled as `closed`; the catch around close only logs
FinallyResult(tried, closed) == tried

\* the event a settled call leaves in the trace
SettledAs(call, result) == call \o (IF result.ok THEN ":ok" ELSE ":failed")

(***************************************************************************)
(* The email-subscriber custom resource                                    *)
(* (src/lib/constructs/parameter-email-subscriber.js and its later copy    *)
(* src/unnamed/part_001): the pure parts of its inline Lambda handler, and *)
(* what the parameter store and the topic may answer.                      *)
(***************************************************************************)
\* the two copies of the handler
Variants == {"construct", "part_001"}

\* ResourceProperties of the custom resource
ParameterName == "/neptune/notification/emails"
TopicArn == "arn:aws:sns:eu-west-1:111122223333:neptune-notifications"

\* an error of the AWS SDK: v3 errors carry `name`, older ones `Code`
SdkError(name, code, message) ==
    [t |-> "error", name |-> name, Code |-> code, message |-> message]

\* what ssm.send(GetParameterCommand) may do
ParameterValues ==
    {Undef, Str(""), Str(" , "), Str("a@x.org"), Str(" a@x.org ,b@x.org,"),
     Str("b@x.org,a@x.org")}
ParameterOutcomes ==
    {[kind |-> "response", value |-> v] : v \in ParameterValues}
    \cup {[kind |-> "reject", error |-> e] :
            e \in {SdkError("ParameterNotFound", "", "Parameter not found"),
                   SdkError("Error", "ParameterNotFound", "Parameter not found"),
                   SdkError("AccessDeniedException", "", "not authorized")}}

\* s.split(","), from position i on; c is the position of the next comma
RECURSIVE SplitFrom(_, _)
SplitAt(s, i, c) ==
    IF c = 0 THEN <<Slice(s, i, Len(s))>>
    ELSE <<Slice(s, i, c - 1)>> \o SplitFrom(s, c + 1)
SplitFrom(s, i) == SplitAt(s, i, IndexFrom(s, ",", i))

\* s.trim()
TrimTo(s, keep) ==
    IF keep = {} THEN "" ELSE SubSeq(s, Least(keep), Greatest(keep))
Trim(s) == TrimTo(s, {j \in 1..Len(s) : Ch(s, j) \notin WhiteSpace})

\* value.split(",").map(email => email.trim()).filter(email => email.length > 0)
TrimAll(pieces) == [i \in 1..Len(pieces) |-> Trim(pieces[i])]
ParseEmails(value) == SelectSeq(TrimAll(SplitFrom(value, 1)), LAMBDA e : Len(e) > 0)

\* list.join(sep)
RECURSIVE Join(_, _)
Join(list, sep) ==
    IF Len(list) = 0 THEN ""
    ELSE IF Len(list) = 1 THEN list[1]
    ELSE list[1] \o sep \o Join(Tail(list), sep)

\* getEmailsFromParameter without the ParameterNotFound branch
getEmailsFromParameterStrict(copy, sent) ==
    IF sent.kind = "response"
    THEN Returned(ParseEmails(IF Truthy(sent.value) THEN sent.value.s ELSE ""))
    ELSE Thrown(ErrorObj("Failed to read parameter " \o ParameterName \o ": "
                         \o sent.error.message))

\* getEmailsFromParameter of the given copy, for what ssm.send did
getEmailsFromParameter(copy, sent) ==
    IF sent.kind = "response"
    THEN Returned(ParseEmails(IF Truthy(sent.value) THEN sent.value.s ELSE ""))
    ELSE IF copy = "part_001"
            /\ (sent.error.name = "ParameterNotFound" \/ sent.error.Code = "ParameterNotFound")
    THEN Returned(<<>>)
    ELSE Thrown(ErrorObj("Failed to read parameter " \o ParameterName \o ": "
                         \o sent.error.message))

\* a subscription of the topic as SNS holds it
Subscription(protocol, endpoint, confirmed) ==
    [Protocol |-> protocol, Endpoint |-> endpoint,
     SubscriptionArn |-> TopicArn \o ":" \o endpoint, Confirmed |-> confirmed]

\* the topic before the custom resource is created: empty, or with the
\* queue subscription of another resource
InitialTopics == {<<>>, <<Subscription("sqs", "alarm-queue", TRUE)>>}

\* the positions of the topic's subscriptions with the given endpoint
Holding(subs, endpoint) ==
    {i \in 1..Len(subs) : subs[i].Protocol = "email" /\ subs[i].Endpoint = endpoint}

\* what sns.send(SubscribeCommand) answers for an address: the ARN of its
\* confirmed subscription, or the placeholder of a pending one
SubscribeResponse(subs, endpoint) ==
    IF \E i \in Holding(subs, endpoint) : subs[i].Confirmed
    THEN TopicArn \o ":" \o endpoint
    ELSE "pending confirmation"

\* the topic after a Subscribe call that succeeded
AfterSubscribe(subs, endpoint) ==
    IF Holding(subs, endpoint) = {} THEN Append(subs, Subscription("email", endpoint, FALSE))
    ELSE subs

\* the placeholder ListSubscriptionsByTopic shows as the ARN of a pending
\* subscription
PendingArns == {"PendingConfirmation", "pending confirmation"}

\* the Subscriptions of a ListSubscriptionsByTopic response
Listing(subs, pending) ==
    [i \in 1..Len(subs) |->
        [Protocol |-> subs[i].Protocol, Endpoint |-> subs[i].Endpoint,
         SubscriptionArn |-> IF subs[i].Confirmed THEN subs[i].SubscriptionArn
                             ELSE pending]]

\* what sns.send(ListSubscriptionsByTopicCommand) may do
ListOutcomes(subs) ==
    {[kind |-> "reject", error |-> SdkError("ThrottledException", "", "Rate exceeded")]}
    \cup {[kind |-> "response", Subscriptions |-> Arr(Listing(subs, p))] : p \in PendingArns}
    \cup (IF subs = <<>> THEN {[kind |-> "response", Subscriptions |-> Undef]} ELSE {})

\* listTopicSubscriptions: response.Subscriptions || [], [] on an error
listTopicSubscriptions(sent) ==
    IF sent.kind = "response" /\ Truthy(sent.Subscriptions) THEN sent.Subscriptions.a
    ELSE <<>>

\* the ARNs of the listing without the filter on the protocol
EveryArn(allSubscriptions) ==
    [i \in 1..Len(allSubscriptions) |-> allSubscriptions[i].SubscriptionArn]

\* allSubscriptions.filter(sub => sub.Protocol === "email").map(sub => sub.SubscriptionArn)
EmailArns(allSubscriptions) ==
    [i \in 1..Len(SelectSeq(allSubscriptions, LAMBDA sub : sub.Protocol = "email")) |->
        SelectSeq(allSubscriptions, LAMBDA sub : sub.Protocol = "email")[i].SubscriptionArn]

\* whether sns.send(UnsubscribeCommand) can succeed: only for the ARN of a
\* subscription the topic holds
UnsubscribeOutcomes(subs, arn) ==
    IF \E i \in 1..Len(subs) : subs[i].SubscriptionArn = arn THEN {TRUE, FALSE}
    ELSE {FALSE}

\* the topic after an Unsubscribe call that succeeded
AfterUnsubscribe(subs, arn) == SelectSeq(subs, LAMBDA sub : sub.SubscriptionArn # arn)

\* values of Date.now()
Timestamps == {1000, 2000}

\* `email-subscriber-${Date.now()}` whatever id the request carries
ResourceIdsFresh(given) ==
    {Str("email-subscriber-" \o ToString(now)) : now \in Timestamps}

\* PhysicalResourceId || `email-subscriber-${Date.now()}`
ResourceIds(given) ==
    IF Truthy(given) THEN {given}
    ELSE {Str("email-subscriber-" \o ToString(now)) : now \in Timestamps}

\* the results the handler returns
NoEmails(id) ==
    [PhysicalResourceId |-> id, Data |-> [SubscriptionCount |-> 0, Emails |-> ""]]
Subscribed(id, list, arns) ==
    [PhysicalResourceId |-> id,
     Data |-> [SubscriptionCount |-> Len(arns), Emails |-> Join(list, ","),
               SubscriptionArns |-> Join(arns, ",")]]
Deleted(id) == [PhysicalResourceId |-> id]

(***************************************************************************)
(* The invocations of the handler in one process.  Every await is a        *)
(* position of pc; the action that resumes from it draws the outcome of    *)
(* the awaited call.                                                       *)
(***************************************************************************)
VARIABLES
    event,            \* the request: [question, history]
    pc,               \* position of the invocation
    messages,         \* const messages (line 134)
    bedrockResponse,  \* text of the first model reply, "" before it
    parsed,           \* the decoded directive, Undef before it
    gremlinQuery,     \* parsed.gremlinQuery, Undef before it
    calls,            \* message lists passed to invokeBedrock, in call order
    execCalls,        \* number of calls of executeGremlin
    conn,             \* the connection of executeGremlin
    opened,           \* connections created
    closeCalls,       \* calls of conn.close()
    evaluated,        \* source texts of the traversals submitted to the database
    settled,          \* how the try block of executeGremlin ended
    outcome,          \* how executeGremlin ended, as seen by the handler
    summary,          \* text of the second model reply, Undef before it
    response,         \* the value the handler returned
    thrown,           \* the exception that left the handler
    closeEvents,      \* codes of the close events the connection emitted
    uncaught,         \* the exception no caller caught
    trace,            \* the external calls of this invocation, issued and settled
    leaked,           \* connections that earlier invocations left unclosed
    run,              \* number of this invocation in its process
    previous,         \* how the earlier invocations ended
    log,              \* what the model service and the database did so far
    suspended         \* the locals of another invocation that is at an await

VARIABLES
    variant,            \* which copy of the email-subscriber handler runs
    request,            \* the custom-resource event being handled
    epc,                \* position of the email-subscriber handler
    emails,             \* const emails
    cursor,             \* index of the loop over emails or over the ARNs
    subscriptionArns,   \* const subscriptionArns of subscribeEmails
    emailSubscriptions, \* const emailSubscriptions of the Delete branch
    topic,              \* the subscriptions of the SNS topic
    subscribed,         \* endpoints whose Subscribe call succeeded
    snsCalls,           \* the calls made to SNS, in order
    result,             \* what the email-subscriber handler returned or threw
    physicalId,         \* the physical id CloudFormation holds for the resource
    handled,            \* request types handled so far
    parameter           \* what ssm.send did in this request, None before

handlerVars ==
    <<event, pc, messages, bedrockResponse, parsed, gremlinQuery, calls,
      execCalls, conn, opened, closeCalls, evaluated, settled, outcome,
      summary, response, thrown, closeEvents, uncaught, trace, leaked, run,
      previous, log, suspended>>

emailVars ==
    <<variant, request, epc, emails, cursor, subscriptionArns,
      emailSubscriptions, topic, subscribed, snsCalls, result, physicalId,
      handled, parameter>>

vars == <<handlerVars, emailVars>>

None == [t |-> "none"]

\* the stub rule: a service asked the same thing answers the same way
Scripted(step, input, choice) ==
    \A i \in 1..Len(log) :
        (log[i].step = step /\ log[i].input = input) => log[i].choice = choice

\* the log with the answer `choice` to (`step`, `input`) on record
Logged(step, input, choice) ==
    IF \E i \in 1..Len(log) : log[i].step = step /\ log[i].input = input
    THEN log
    ELSE Append(log, [step |-> step, input |-> input, choice |-> choice])

\* the email-subscriber handler has not been deployed
EmailIdle ==
    /\ variant = "none"
    /\ request = None
    /\ epc = "idle"
    /\ emails = <<>>
    /\ cursor = 0
    /\ subscriptionArns = <<>>
    /\ emailSubscriptions = <<>>
    /\ topic = <<>>
    /\ subscribed = {}
    /\ snsCalls = <<>>
    /\ result = None
    /\ physicalId = Undef
    /\ handled = <<>>
    /\ parameter = None

\* the handler before its first invocation
HandlerInit ==
    /\ event \in [question : Questions, history : Histories]
    /\ pc = "start"
    /\ messages = <<>>
    /\ bedrockResponse = ""
    /\ parsed = Undef
    /\ gremlinQuery = Undef
    /\ calls = <<>>
    /\ execCalls = 0
    /\ conn = "none"
    /\ opened = 0
    /\ closeCalls = 0
    /\ evaluated = <<>>
    /\ settled = None
    /\ outcome = None
    /\ summary = Undef
    /\ response = None
    /\ thrown = None
    /\ closeEvents = <<>>
    /\ uncaught = None
    /\ trace = <<>>
    /\ leaked = 0
    /\ run = 1
    /\ previous = <<>>
    /\ log = <<>>

Init == HandlerInit /\ suspended = None /\ EmailIdle

\* `return resp`
Return(resp) == response' = resp /\ pc' = "done"

\* lines 132-151: the try block up to the first model call
EntryBuilt(built) ==
    IF built.ok
    THEN /\ messages' = built.v
         /\ calls' = Append(calls, built.v)
         /\ trace' = Append(trace, "model")
         /\ pc' = "model1"
         /\ UNCHANGED <<response, thrown>>
    ELSE /\ Return(GenericFailure(built.error))
         /\ UNCHANGED <<messages, calls, trace, thrown>>

\* lines 122-131, given JSON.parse's result for the history argument: that
\* call runs before the try block, so its SyntaxError leaves the handler
EntryParsed(history) ==
    IF ~history.ok
    THEN /\ thrown' = ErrorObj("Unexpected token in JSON")
         /\ pc' = "threw"
         /\ UNCHANGED <<messages, calls, trace, response>>
    ELSE IF ~Truthy(event.question)
    THEN /\ Return(Guidance)
         /\ UNCHANGED <<messages, calls, trace, thrown>>
    ELSE EntryBuilt(BuildMessages(messages, history.v, event.question))

\* lines 122-124: what `history ? JSON.parse(history) : []` makes of each
\* history argument
ParsedHistories ==
    {[history |-> h,
      parsed |-> IF Truthy(h) THEN JsonParse(JsToString(h)) ELSE Ok(Arr(<<>>), 0)] :
        h \in Histories}

HistoryParsed(history) ==
    (CHOOSE p \in ParsedHistories : p.history = history).parsed

\* lines 120-151: read the arguments, answer an empty question, build the
\* messages and issue the first model call
HandlerEntry ==
    /\ pc = "start"
    /\ UNCHANGED <<event, bedrockResponse, parsed, gremlinQuery, execCalls, conn,
                   opened, closeCalls, evaluated, settled, outcome, summary,
                   closeEvents, uncaught, leaked, run, previous, log>>
    /\ UNCHANGED <<suspended, emailVars>>
    /\ EntryParsed(HistoryParsed(event.history))

\* lines 173-182: the reply decoded to `directive`
Directive(text, directive) ==
    /\ parsed' = directive
    /\ IF ~CanGet(directive)
       THEN /\ Return(GenericFailure(PropertyTypeError(directive, "needsQuery")))
            /\ UNCHANGED gremlinQuery
       ELSE IF ~Truthy(Get(directive, "needsQuery"))
       THEN /\ Return(DirectAnswer(directive, text))
            /\ UNCHANGED gremlinQuery
       ELSE /\ gremlinQuery' = Get(directive, "gremlinQuery")
            /\ pc' = "execute"
            /\ UNCHANGED response

\* lines 152-172: the reply text and what the inner try made of it
Decoded(text, decoded) ==
    /\ bedrockResponse' = text
    /\ IF decoded.ok
       THEN Directive(text, decoded.v)
       ELSE /\ Return(ParseFallback(text))
            /\ UNCHANGED <<parsed, gremlinQuery>>

\* line 151: invokeBedrock returned or threw
FirstReplied(reply) ==
    /\ trace' = Append(trace, SettledAs("model", reply))
    /\ IF reply.ok
       THEN Decoded(reply.v.s, ParseDirective(reply.v.s))
       ELSE /\ Return(GenericFailure(reply.error))
            /\ UNCHANGED <<bedrockResponse, parsed, gremlinQuery>>

\* lines 151-182: the first model call settles; decode the reply and either
\* return or go on to executeGremlin
FirstReply ==
    /\ pc = "model1"
    /\ UNCHANGED <<event, messages, calls, execCalls, conn, opened, closeCalls,
                   evaluated, settled, outcome, summary, thrown, closeEvents,
                   uncaught, leaked, run, previous>>
    /\ UNCHANGED <<suspended, emailVars>>
    /\ \E sent \in SendOutcomes(ModelReplies) :
          /\ Scripted("model", messages, sent)
          /\ log' = Logged("model", messages, sent)
          /\ FirstReplied(invokeBedrock(sent))

\* lines 197-211: the result serialized, or not; issue the summary call
Serialized(issued, text) ==
    IF text.ok
    THEN /\ calls' = Append(calls, summaryMessages(messages, gremlinQuery, text.v))
         /\ trace' = Append(issued, "model")
         /\ pc' = "model2"
         /\ UNCHANGED response
    ELSE /\ Return(GenericFailure(text.error))
         /\ trace' = issued
         /\ UNCHANGED calls

\* AfterExecute issuing the summary call whatever executeGremlin ended with
AfterExecuteAlways(issued, ended) ==
    /\ outcome' = ended
    /\ Serialized(Append(issued, SettledAs("executor", ended)),
                  IF ended.ok THEN resultStr(ended.v) ELSE Returned(Str("null")))

\* lines 185-211: executeGremlin ended with `ended`; either return the
\* traversal failure or serialize the result and issue the summary call
AfterExecute(issued, ended) ==
    /\ outcome' = ended
    /\ IF ~ended.ok
       THEN /\ Return(TraversalFailure(gremlinQuery, ended.error))
            /\ trace' = Append(issued, SettledAs("executor", ended))
            /\ UNCHANGED calls
       ELSE Serialized(Append(issued, SettledAs("executor", ended)), resultStr(ended.v))

\* lines 101-102: createRemoteConnection() and traversal().withRemote(conn),
\* both before the try block: a throw of either ends executeGremlin at once
executeGremlinOpen ==
    /\ pc = "execute"
    /\ execCalls' = execCalls + 1
    /\ UNCHANGED <<event, messages, bedrockResponse, parsed, gremlinQuery,
                   closeCalls, evaluated, settled, summary, thrown, closeEvents,
                   uncaught, leaked, run, previous>>
    /\ UNCHANGED <<suspended, emailVars>>
    /\ \/ /\ Scripted("open", gremlinQuery, "createRemoteConnection throws")
          /\ log' = Logged("open", gremlinQuery, "createRemoteConnection throws")
          /\ UNCHANGED <<conn, opened>>
          /\ AfterExecute(Append(trace, "executor"), Thrown(ErrorObj("Invalid URL")))
       \/ /\ Scripted("open", gremlinQuery, "withRemote throws")
          /\ log' = Logged("open", gremlinQuery, "withRemote throws")
          /\ conn' = "open"
          /\ opened' = opened + 1
          /\ AfterExecute(Append(trace, "executor"),
                          Thrown(ErrorObj("withRemote failed")))
       \/ /\ Scripted("open", gremlinQuery, "connected")
          /\ log' = Logged("open", gremlinQuery, "connected")
          /\ conn' = "open"
          /\ opened' = opened + 1
          /\ trace' = Append(trace, "executor")
          /\ pc' = "try"
          /\ UNCHANGED <<calls, outcome, response>>

\* lines 106-107: compile `return g.${queryString}` and call it.  Whether a
\* fragment text compiles, throws while its steps are chained, or submits a
\* traversal depends on the fragment.  A fragment that is undefined, null or
\* a boolean names a property g does not have (g.undefined, ...): the call
\* yields undefined without reaching the database.  A number or an object
\* does not compile (g.5, g.[object Object]).
executeGremlinTry ==
    /\ pc = "try"
    /\ UNCHANGED <<event, messages, bedrockResponse, parsed, gremlinQuery, calls,
                   execCalls, conn, opened, closeCalls, outcome, summary, response,
                   thrown, closeEvents, uncaught, trace, leaked, run, previous>>
    /\ UNCHANGED <<suspended, emailVars>>
    /\ IF gremlinQuery.t \in {"undef", "null", "bool"}
       THEN /\ settled' = Returned(Undef)
            /\ pc' = "finally"
            /\ UNCHANGED <<evaluated, log>>
       ELSE IF gremlinQuery.t \in {"num", "obj"}
       THEN /\ settled' = Thrown(ErrorObj("Unexpected token"))
            /\ pc' = "finally"
            /\ UNCHANGED <<evaluated, log>>
       ELSE \/ /\ Scripted("call", gremlinQuery, "does not compile")
               /\ log' = Logged("call", gremlinQuery, "does not compile")
               /\ settled' = Thrown(ErrorObj("Unexpected token ')'"))
               /\ pc' = "finally"
               /\ UNCHANGED evaluated
            \/ /\ Scripted("call", gremlinQuery, "throws")
               /\ log' = Logged("call", gremlinQuery, "throws")
               /\ settled' = Thrown(ErrorObj("g.V(...).foo is not a function"))
               /\ pc' = "finally"
               /\ UNCHANGED evaluated
            \/ /\ Scripted("call", gremlinQuery, "submitted")
               /\ log' = Logged("call", gremlinQuery, "submitted")
               /\ evaluated' = Append(evaluated, QueryText(gremlinQuery))
               /\ pc' = "await"
               /\ UNCHANGED settled

\* line 107: the submitted traversal resolves or rejects
TraversalSettles ==
    /\ pc = "await"
    /\ UNCHANGED <<event, messages, bedrockResponse, parsed, gremlinQuery, calls,
                   execCalls, conn, opened, closeCalls, evaluated, outcome, summary,
                   response, thrown, closeEvents, uncaught, trace, leaked, run,
                   previous>>
    /\ UNCHANGED <<suspended, emailVars>>
    /\ pc' = "finally"
    /\ \E ended \in {Returned(r) : r \in QueryResults} \cup {Thrown(e) : e \in QueryErrors} :
          /\ Scripted("traversal", gremlinQuery, ended)
          /\ log' = Logged("traversal", gremlinQuery, ended)
          /\ settled' = ended

\* lines 91-97: the connection emits its close event while the handler waits
\* for the traversal or for conn.close().  The listener logs the code; on
\* code 1006 it throws, and a throw of a listener goes to the emitter that
\* called it, in a turn of the event loop where no caller of executeGremlin
\* is on the stack: nothing catches it and the process ends with the
\* invocation unanswered.
CloseEvent ==
    /\ pc \in {"await", "closing"}
    /\ conn \in {"open", "closing"}
    /\ closeEvents = <<>>
    /\ UNCHANGED <<event, messages, bedrockResponse, parsed, gremlinQuery, calls,
                   execCalls, opened, closeCalls, evaluated, settled, outcome,
                   summary, response, thrown, trace, leaked, run, previous>>
    /\ UNCHANGED <<suspended, emailVars>>
    /\ \E code \in CloseCodes :
          /\ run = 1 \/ \E i \in 1..Len(log) :
                           /\ log[i].step = "close event"
                           /\ log[i].input = <<pc, gremlinQuery>>
          /\ Scripted("close event", <<pc, gremlinQuery>>, code)
          /\ log' = Logged("close event", <<pc, gremlinQuery>>, code)
          /\ closeEvents' = <<code>>
          /\ IF code = PrematureClose
             THEN /\ uncaught' = ErrorObj("Connection closed prematurely")
                  /\ pc' = "crashed"
                  /\ conn' = "closed"
             ELSE /\ conn' = IF conn = "closing" THEN "closing" ELSE "closed"
                  /\ UNCHANGED <<uncaught, pc>>

\* line 112: the finally block calls conn.close()
executeGremlinFinally ==
    /\ pc = "finally"
    /\ closeCalls' = closeCalls + 1
    /\ conn' = "closing"
    /\ pc' = "closing"
    /\ UNCHANGED <<event, messages, bedrockResponse, parsed, gremlinQuery, calls,
                   execCalls, opened, evaluated, settled, outcome, summary, response,
                   thrown, closeEvents, uncaught, trace, leaked, run, previous, log>>
    /\ UNCHANGED <<suspended, emailVars>>

\* lines 112-118: close settles; a rejection is logged and dropped, and
\* executeGremlin ends the way FinallyResult says
CloseSettles ==
    /\ pc = "closing"
    /\ UNCHANGED <<event, messages, bedrockResponse, parsed, gremlinQuery,
                   execCalls, opened, closeCalls, evaluated, settled, summary, thrown,
                   closeEvents, uncaught, leaked, run, previous>>
    /\ UNCHANGED <<suspended, emailVars>>
    /\ \E closed \in CloseOutcomes :
          /\ Scripted("close", gremlinQuery, closed)
          /\ log' = Logged("close", gremlinQuery, closed)
          /\ conn' = IF closed.ok \/ closeEvents # <<>> THEN "closed" ELSE "closeFailed"
          /\ AfterExecute(trace, FinallyResult(settled, closed))

\* line 211: invokeBedrock returned or threw
SecondReplied(reply) ==
    /\ trace' = Append(trace, SettledAs("model", reply))
    /\ IF reply.ok
       THEN /\ summary' = reply.v
            /\ Return(SummaryResponse(reply.v, gremlinQuery, JsonStringify(outcome.v)))
       ELSE /\ Return(GenericFailure(reply.error))
            /\ UNCHANGED summary

\* lines 211-216: the summary call settles
SecondReply ==
    /\ pc = "model2"
    /\ UNCHANGED <<event, messages, bedrockResponse, parsed, gremlinQuery, calls,
                   execCalls, conn, opened, closeCalls, evaluated, settled, outcome,
                   thrown, closeEvents, uncaught, leaked, run, previous>>
    /\ UNCHANGED <<suspended, emailVars>>
    /\ \E sent \in SendOutcomes(SummaryReplies) :
          /\ Scripted("model", calls[Len(calls)], sent)
          /\ log' = Logged("model", calls[Len(calls)], sent)
          /\ SecondReplied(invokeBedrock(sent))

\* lines 119-134: the process, still alive, is handed the same event again.
\* Nothing the finished invocation bound outlives it: the module keeps only
\* constants (lines 4-62), so the new invocation starts as the first one did;
\* a connection the finished one did not close stays behind.
NextInvocation ==
    /\ pc \in {"done", "threw"}
    /\ run < MaxRuns
    /\ run' = run + 1
    /\ previous' = Append(previous, [response |-> response, thrown |-> thrown])
    /\ leaked' = leaked + (IF conn \in {"open", "closing", "closeFailed"} THEN 1 ELSE 0)
    /\ messages' = NewMessages(messages)
    /\ pc' = "start"
    /\ bedrockResponse' = ""
    /\ parsed' = Undef
    /\ gremlinQuery' = Undef
    /\ calls' = <<>>
    /\ execCalls' = 0
    /\ conn' = "none"
    /\ opened' = 0
    /\ closeCalls' = 0
    /\ evaluated' = <<>>
    /\ settled' = None
    /\ outcome' = None
    /\ summary' = Undef
    /\ response' = None
    /\ thrown' = None
    /\ closeEvents' = <<>>
    /\ trace' = <<>>
    /\ UNCHANGED <<event, uncaught, log>>
    /\ UNCHANGED <<suspended, emailVars>>

Next ==
    \/ HandlerEntry
    \/ FirstReply
    \/ executeGremlinOpen
    \/ executeGremlinTry
    \/ TraversalSettles
    \/ CloseEvent
    \/ executeGremlinFinally
    \/ CloseSettles
    \/ SecondReply

Spec == Init /\ [][Next]_vars

\* the events of the invocations followed to their end: no history, a
\* history that is not JSON, and histories that begin with assistant turns
TerminationEvents ==
    {[question |-> Str("How many nodes are in the graph?"), history |-> h] :
        h \in {Undef, Str("not json"),
                JsonStringify(TurnList(<<"assistant", "assistant">>)),
                JsonStringify(TurnList(<<"assistant", "user">>))}}

TerminationInit == Init /\ event \in TerminationEvents

\* one invocation in which every pending await settles: the model service,
\* the database and conn.close() each return or fail in the end, and the
\* handler's own steps are taken
Terminating == TerminationInit /\ [][Next]_vars /\ WF_vars(Next)

\* the events handed to a process twice
RepeatedEvents ==
    {[question |-> Str("How many nodes are in the graph?"), history |-> h] :
        h \in {Undef, Str("not json"), Str("[{\"role\": \"user\", \"content\": null}]"),
               JsonStringify(TurnList(<<"assistant", "user">>))}}
    \cup {[question |-> Str(""), history |-> Undef]}

RepeatInit == Init /\ event \in RepeatedEvents

RepeatNext == Next \/ NextInvocation

\* the process lives on after an invocation and is invoked again
Repeat == RepeatInit /\ [][RepeatNext]_vars

\* the locals of the invocation that is running
Locals ==
    [event |-> event, pc |-> pc, messages |-> messages,
     bedrockResponse |-> bedrockResponse, parsed |-> parsed,
     gremlinQuery |-> gremlinQuery, calls |-> calls, execCalls |-> execCalls,
     conn |-> conn, opened |-> opened, closeCalls |-> closeCalls,
     evaluated |-> evaluated, settled |-> settled, outcome |-> outcome,
     summary |-> summary, response |-> response, thrown |-> thrown,
     closeEvents |-> closeEvents, trace |-> trace]

\* while this invocation has not started, awaits a call or has ended, the
\* event loop of the process goes on with the other invocation; after an
\* uncaught exception nothing runs any more
Switch ==
    /\ suspended # None
    /\ uncaught = None
    /\ pc \in {"start", "model1", "await", "closing", "model2", "done", "threw"}
    /\ suspended.pc \notin {"done", "threw"}
    /\ suspended' = Locals
    /\ event' = suspended.event
    /\ pc' = suspended.pc
    /\ messages' = suspended.messages
    /\ bedrockResponse' = suspended.bedrockResponse
    /\ parsed' = suspended.parsed
    /\ gremlinQuery' = suspended.gremlinQuery
    /\ calls' = suspended.calls
    /\ execCalls' = suspended.execCalls
    /\ conn' = suspended.conn
    /\ opened' = suspended.opened
    /\ closeCalls' = suspended.closeCalls
    /\ evaluated' = suspended.evaluated
    /\ settled' = suspended.settled
    /\ outcome' = suspended.outcome
    /\ summary' = suspended.summary
    /\ response' = suspended.response
    /\ thrown' = suspended.thrown
    /\ closeEvents' = suspended.closeEvents
    /\ trace' = suspended.trace
    /\ UNCHANGED <<uncaught, leaked, run, previous, log>>
    /\ UNCHANGED emailVars

\* the events of two invocations that run interleaved
InterleavedEvents ==
    {[question |-> Str("How many nodes are in the graph?"), history |-> h] :
        h \in {Undef, JsonStringify(TurnList(<<"assistant", "user">>))}}

\* two invocations on the same event, neither started
InterleavedInit ==
    /\ HandlerInit /\ EmailIdle
    /\ event \in InterleavedEvents
    /\ suspended = Locals

InterleavedNext == Next \/ Switch

\* two invocations of the handler interleaved in one process
Interleaved == InterleavedInit /\ [][InterleavedNext]_vars

(***************************************************************************)
(* The life of one email-subscriber custom resource: CloudFormation sends  *)
(* Create, then Update and other requests, then Delete, one at a time; the *)
(* handler is at an await between two steps; recipients confirm between    *)
(* requests.                                                               *)
(***************************************************************************)
\* most Update requests, and most requests of another type, of one resource
MaxUpdates == 1

\* how often a request of the given type has been sent
Sent(type) == Cardinality({i \in 1..Len(handled) : handled[i] = type})

\* the request types CloudFormation may send next
NextRequestTypes ==
    IF handled = <<>> THEN {"Create"}
    ELSE IF handled[Len(handled)] = "Delete" \/ ~result.ok THEN {}
    ELSE {"Delete"}
         \cup (IF Sent("Update") < MaxUpdates THEN {"Update"} ELSE {})
         \cup (IF Sent("Import") < MaxUpdates THEN {"Import"} ELSE {})

\* the handler returns or throws: CloudFormation records the physical id of
\* a request that succeeded
Finish(res) ==
    /\ result' = res
    /\ epc' = "idle"
    /\ physicalId' = IF res.ok THEN res.v.PhysicalResourceId ELSE physicalId

\* the handler receives a Create, Update or Delete event and awaits its
\* first call
EmailRequest ==
    /\ epc = "idle"
    /\ \E type \in NextRequestTypes \ {"Import"} :
          /\ request' = [RequestType |-> type, PhysicalResourceId |-> physicalId]
          /\ handled' = Append(handled, type)
          /\ epc' = IF type = "Delete" THEN "listing" ELSE "reading"
    /\ emails' = <<>>
    /\ cursor' = 0
    /\ subscriptionArns' = <<>>
    /\ emailSubscriptions' = <<>>
    /\ snsCalls' = <<>>
    /\ parameter' = None
    /\ result' = None
    /\ UNCHANGED <<variant, topic, subscribed, physicalId>>
    /\ UNCHANGED handlerVars

\* a request of any other type: the handler returns at once
OtherRequest ==
    /\ epc = "idle"
    /\ "Import" \in NextRequestTypes
    /\ request' = [RequestType |-> "Import", PhysicalResourceId |-> physicalId]
    /\ handled' = Append(handled, "Import")
    /\ emails' = <<>>
    /\ cursor' = 0
    /\ subscriptionArns' = <<>>
    /\ emailSubscriptions' = <<>>
    /\ snsCalls' = <<>>
    /\ parameter' = None
    /\ \E id \in ResourceIds(physicalId) : Finish(Returned(Deleted(id)))
    /\ UNCHANGED <<variant, topic, subscribed>>
    /\ UNCHANGED handlerVars

\* Create or Update: getEmailsFromParameter settles
ParameterRead ==
    /\ epc = "reading"
    /\ \E sent \in ParameterOutcomes :
          /\ parameter' = sent
          /\ IF ~getEmailsFromParameter(variant, sent).ok
             THEN /\ Finish(Thrown(getEmailsFromParameter(variant, sent).error))
                  /\ UNCHANGED <<emails, cursor>>
             ELSE IF Len(getEmailsFromParameter(variant, sent).v) = 0
             THEN /\ \E id \in ResourceIds(request.PhysicalResourceId) :
                        Finish(Returned(NoEmails(id)))
                  /\ UNCHANGED <<emails, cursor>>
             ELSE /\ emails' = getEmailsFromParameter(variant, sent).v
                  /\ cursor' = 1
                  /\ epc' = "subscribing"
                  /\ UNCHANGED <<result, physicalId>>
    /\ UNCHANGED <<variant, request, subscriptionArns, emailSubscriptions, topic,
                   subscribed, snsCalls, handled>>
    /\ UNCHANGED handlerVars

\* subscribeEmails, were a failed Subscribe call to end the loop
SubscribeLoopStopping(arns) ==
    /\ subscriptionArns' = arns
    /\ IF cursor < Len(emails) /\ arns # subscriptionArns
       THEN /\ cursor' = cursor + 1
            /\ UNCHANGED <<epc, result, physicalId>>
       ELSE /\ \E id \in ResourceIds(request.PhysicalResourceId) :
                  Finish(Returned(Subscribed(id, emails, arns)))
            /\ UNCHANGED cursor

\* subscribeEmails goes on with the list of ARNs `arns`, or returns it and
\* the handler returns
SubscribeLoop(arns) ==
    /\ subscriptionArns' = arns
    /\ IF cursor < Len(emails)
       THEN /\ cursor' = cursor + 1
            /\ UNCHANGED <<epc, result, physicalId>>
       ELSE /\ \E id \in ResourceIds(request.PhysicalResourceId) :
                  Finish(Returned(Subscribed(id, emails, arns)))
            /\ UNCHANGED cursor

\* subscribeEmails: the Subscribe call for emails[cursor] settles
SubscribeNext ==
    /\ epc = "subscribing"
    /\ \E ok \in BOOLEAN :
          /\ snsCalls' = Append(snsCalls, [op |-> "Subscribe", arg |-> emails[cursor],
                                          ok |-> ok])
          /\ IF ok
             THEN /\ topic' = AfterSubscribe(topic, emails[cursor])
                  /\ subscribed' = subscribed \cup {emails[cursor]}
                  /\ SubscribeLoop(Append(subscriptionArns,
                                          SubscribeResponse(topic, emails[cursor])))
             ELSE /\ SubscribeLoop(subscriptionArns)
                  /\ UNCHANGED <<topic, subscribed>>
    /\ UNCHANGED <<variant, request, emails, emailSubscriptions, handled>>
    /\ UNCHANGED parameter
    /\ UNCHANGED handlerVars

\* between two requests, the recipient of a pending subscription confirms it
Confirm ==
    /\ epc = "idle"
    /\ \E i \in 1..Len(topic) :
          /\ ~topic[i].Confirmed
          /\ topic' = [topic EXCEPT ![i].Confirmed = TRUE]
    /\ UNCHANGED <<variant, request, epc, emails, cursor, subscriptionArns,
                   emailSubscriptions, subscribed, snsCalls, result, physicalId,
                   handled>>
    /\ UNCHANGED parameter
    /\ UNCHANGED handlerVars

\* Delete: listTopicSubscriptions settles
ListSubscriptions ==
    /\ epc = "listing"
    /\ \E sent \in ListOutcomes(topic) :
          /\ snsCalls' = Append(snsCalls, [op |-> "ListSubscriptionsByTopic",
                                          arg |-> TopicArn, ok |-> sent.kind = "response"])
          /\ emailSubscriptions' = EmailArns(listTopicSubscriptions(sent))
          /\ IF Len(EmailArns(listTopicSubscriptions(sent))) = 0
             THEN /\ Finish(Returned(Deleted(request.PhysicalResourceId)))
                  /\ UNCHANGED cursor
             ELSE /\ cursor' = 1
                  /\ epc' = "unsubscribing"
                  /\ UNCHANGED <<result, physicalId>>
    /\ UNCHANGED <<variant, request, emails, subscriptionArns, topic, subscribed,
                   handled>>
    /\ UNCHANGED parameter
    /\ UNCHANGED handlerVars

\* unsubscribeEmails goes on, or returns and the handler returns
UnsubscribeLoop ==
    IF cursor < Len(emailSubscriptions)
    THEN /\ cursor' = cursor + 1
         /\ UNCHANGED <<epc, result, physicalId>>
    ELSE /\ Finish(Returned(Deleted(request.PhysicalResourceId)))
         /\ UNCHANGED cursor

\* unsubscribeEmails: emailSubscriptions[cursor] is skipped, or its
\* Unsubscribe call settles
UnsubscribeNext ==
    /\ epc = "unsubscribing"
    /\ IF emailSubscriptions[cursor] = "pending confirmation"
       THEN UNCHANGED <<topic, snsCalls>>
       ELSE \E ok \in UnsubscribeOutcomes(topic, emailSubscriptions[cursor]) :
               /\ snsCalls' = Append(snsCalls, [op |-> "Unsubscribe",
                                               arg |-> emailSubscriptions[cursor],
                                               ok |-> ok])
               /\ topic' = IF ok THEN AfterUnsubscribe(topic, emailSubscriptions[cursor])
                           ELSE topic
    /\ UnsubscribeLoop
    /\ UNCHANGED <<variant, request, emails, subscriptionArns, emailSubscriptions,
                   subscribed, handled>>
    /\ UNCHANGED parameter
    /\ UNCHANGED handlerVars

\* the resource is deployed with one of the two copies of the handler, on a
\* topic that may hold another resource's subscription
EmailInit ==
    /\ HandlerInit
    /\ suspended = None
    /\ event = [question |-> Undef, history |-> Undef]
    /\ variant \in Variants
    /\ topic \in InitialTopics
    /\ request = None
    /\ epc = "idle"
    /\ emails = <<>>
    /\ cursor = 0
    /\ subscriptionArns = <<>>
    /\ emailSubscriptions = <<>>
    /\ subscribed = {}
    /\ snsCalls = <<>>
    /\ result = None
    /\ physicalId = Undef
    /\ handled = <<>>
    /\ parameter = None

EmailNext ==
    \/ EmailRequest
    \/ OtherRequest
    \/ ParameterRead
    \/ SubscribeNext
    \/ Confirm
    \/ ListSubscriptions
    \/ UnsubscribeNext

EmailSubscriber == EmailInit /\ [][EmailNext]_vars

(***************************************************************************)
(* Properties.                                                             *)
(***************************************************************************)
\* whether sub occurs in s
Contains(s, sub) ==
    \E i \in 1..(Len(s) - Len(sub) + 1) : SubSeq(s, i, i + Len(sub) - 1) = sub

Finished == pc \in {"done", "threw"}

\* the handler decoded a directive asking for the traversal of a text fragment
QueryNeeded ==
    /\ parsed.t = "obj"
    /\ Get(parsed, "needsQuery") = Bool(TRUE)
    /\ IsStr(Get(parsed, "gremlinQuery"))
Fragment == Get(parsed, "gremlinQuery").s

\* the text of what executeGremlin threw
ErrorText(e) == IF e.t = "error" THEN e.message ELSE e.s

\* JSON.stringify(R, null, 2) for the results of QueryResults, written out
PrettyPrinted(r) ==
    CASE r = Num(42) -> Str("42")
      [] r = Arr(<<>>) -> Str("[]")
      [] r = Arr(<<Str("Doctor1"), Str("Doctor \"2\"")>>) ->
            Str("[\n  \"Doctor1\",\n  \"Doctor \\\"2\\\"\"\n]")
      [] r = Obj(<<Prop("value", Num(42)), Prop("done", Bool(FALSE))>>) ->
            Str("{\n  \"value\": 42,\n  \"done\": false\n}")
      [] r = JNull -> Str("null")
      [] r = Undef -> Undef

\* C1: for every request event the handler returns an AssistantResponse
\* {answer, query, data}; no exception ever leaves it.
C1_HandlerAlwaysResponds ==
    Finished => (thrown = None /\ response # None
                 /\ DOMAIN response = {"answer", "query", "data"})

\* C2: for every request whose question is empty or missing, whatever the
\* history argument holds, the handler returns the fixed guidance answer with
\* query and data null, and calls neither the model nor the graph database.
C2_EmptyQuestionGuidance ==
    (Finished /\ ~Truthy(event.question)) =>
        (response = Guidance /\ calls = <<>> /\ execCalls = 0 /\ opened = 0)

\* C3: when the first reply is a directive with needsQuery true and fragment
\* F, the executor succeeds with result R and the summary call returns a
\* text, the response has query = "g." + F (the text that was evaluated),
\* data = the pretty-printed R and answer = that summary text, non-empty.
C3_QueryAnswered ==
    (pc = "done" /\ QueryNeeded /\ outcome # None /\ outcome.ok /\ summary # Undef) =>
        /\ response.query = Str("g." \o Fragment)
        /\ evaluated = <<"g." \o Fragment>>
        /\ response.data = PrettyPrinted(outcome.v)
        /\ response.answer = summary
        /\ IsStr(summary) /\ summary.s # ""

C3_Witness ==
    /\ pc = "done" /\ QueryNeeded /\ outcome # None /\ outcome.ok
    /\ Fragment = "V().count().next()"
    /\ outcome.v = Num(42)
    /\ response.answer = Str("There are 42 nodes in the graph.")
    /\ response.query = Str("g.V().count().next()")

\* C4: when the directive asks for fragment F and the executor raises an
\* error with text E, the answer contains "g." + F and E, query = "g." + F,
\* data = null, and the failure is terminal: one executor call, no second
\* traversal, no second model call.
C4_TraversalFailureReported ==
    (pc = "done" /\ QueryNeeded /\ outcome # None /\ ~outcome.ok) =>
        /\ IsStr(response.answer)
        /\ Contains(response.answer.s, "g." \o Fragment)
        /\ Contains(response.answer.s, ErrorText(outcome.error))
        /\ response.query = Str("g." \o Fragment)
        /\ response.data = JNull
        /\ execCalls = 1
        /\ Len(evaluated) <= 1
        /\ Len(calls) = 1

C4_Witness ==
    /\ pc = "done" /\ QueryNeeded /\ outcome # None /\ ~outcome.ok
    /\ outcome.error = ErrorObj("connection refused")
    /\ evaluated = <<"g.V().count().next()">>
    /\ closeCalls = 1

\* the first reply is, as a whole, a JSON object with needsQuery false
ParsedReplies == {[text |-> t, json |-> JsonParse(t)] : t \in ModelReplies}
ReplyJson == (CHOOSE p \in ParsedReplies : p.text = bedrockResponse).json
NoQueryObject ==
    /\ bedrockResponse # ""
    /\ ReplyJson.ok
    /\ ReplyJson.v.t = "obj"
    /\ Get(ReplyJson.v, "needsQuery") = Bool(FALSE)
ReplyAnswer == Get(ReplyJson.v, "answer")

\* C5 as stated: a reply that is a JSON object with needsQuery false and an
\* answer field holding text X gives {answer: X, query: null, data: null},
\* for every text X.
C5_DirectAnswerEveryText ==
    (pc = "done" /\ NoQueryObject /\ IsStr(ReplyAnswer)) =>
        response = [answer |-> ReplyAnswer, query |-> JNull, data |-> JNull]

\* C5 amended: a reply that is a JSON object with needsQuery false gives
\* {answer: X, query: null, data: null} when its answer field holds a
\* non-empty text X, and the raw reply text as answer when the answer field
\* is absent, null or the empty text; in all these cases the executor is
\* never called and the model is called exactly once.
C5_DirectAnswer ==
    (pc = "done" /\ NoQueryObject) =>
        /\ (IsStr(ReplyAnswer) /\ ReplyAnswer.s # "") =>
              response = [answer |-> ReplyAnswer, query |-> JNull, data |-> JNull]
        /\ (ReplyAnswer \in {Undef, JNull, Str("")}) =>
              response = [answer |-> Str(bedrockResponse), query |-> JNull, data |-> JNull]
        /\ (IsStr(ReplyAnswer) \/ ReplyAnswer \in {Undef, JNull}) =>
              (execCalls = 0 /\ opened = 0 /\ Len(calls) = 1)

C5_Witness ==
    /\ pc = "done" /\ NoQueryObject
    /\ ReplyAnswer = Str("")
    /\ response.answer = Str("{\"needsQuery\": false, \"answer\": \"\"}")

\* neither the reply nor any of its brace-delimited parts is JSON
NoParseableJson(text) ==
    /\ ~JsonParse(text).ok
    /\ \A i \in 1..Len(text) : \A j \in (i + 1)..Len(text) :
          (Ch(text, i) = "{" /\ Ch(text, j) = "}") => ~JsonParse(SubSeq(text, i, j)).ok

\* the model replies of that kind
UnparseableReplies == {t \in ModelReplies : NoParseableJson(t)}

\* C6: when the first reply is text that contains no parseable JSON (braces
\* or not), the response is {answer: that text verbatim, query: null,
\* data: null}; no traversal is executed and no second model call is made.
C6_UnparseableReplyVerbatim ==
    (pc = "done" /\ bedrockResponse \in UnparseableReplies) =>
        /\ response = [answer |-> Str(bedrockResponse), query |-> JNull, data |-> JNull]
        /\ execCalls = 0 /\ evaluated = <<>>
        /\ Len(calls) = 1

C6_Witness ==
    /\ pc = "done"
    /\ bedrockResponse = "Write g.V() {like this} to list vertices"
    /\ response.answer = Str("Write g.V() {like this} to list vertices")

\* C7: whenever the first reply does not decode to a directive object (also
\* when it is valid JSON such as null, a number, a string or an array), the
\* handler returns {answer: raw reply, query: null, data: null}; such a reply
\* never gives an error response and never triggers a traversal.
C7_NonDirectiveDegrades ==
    (pc = "done" /\ bedrockResponse # ""
        /\ (~ParseDirective(bedrockResponse).ok
            \/ ParseDirective(bedrockResponse).v.t # "obj")) =>
        /\ response = [answer |-> Str(bedrockResponse), query |-> JNull, data |-> JNull]
        /\ execCalls = 0

\* C8: the message sequence of every model call starts with a turn of role
\* user, whatever the history.
C8_FirstTurnIsUser ==
    \A k \in 1..Len(calls) : Len(calls[k]) > 0 /\ calls[k][1].role = "user"

C8_Witness ==
    /\ event.history = JsonStringify(TurnList(<<"assistant", "user">>))
    /\ Len(calls) = 2
    /\ calls[1] = <<Message("user", Str("t2")), Message("user", event.question)>>
    /\ Len(calls[2]) = 4

\* a traversal that adds, changes or drops vertices or edges
Mutating(query) ==
    \/ Contains(query, ".drop(")
    \/ Contains(query, "addV(")
    \/ Contains(query, "addE(")
    \/ Contains(query, ".property(")

\* C9: every traversal evaluated against the graph database is read-only.
C9_TraversalsReadOnly ==
    \A k \in 1..Len(evaluated) : ~Mutating(evaluated[k])

\* C10: once executeGremlin has returned or thrown, the connection it opened
\* has been closed exactly once, on every exit path.
C10_ConnectionClosedOnce ==
    (outcome # None) => (closeCalls = opened)

\* conn.close() of this invocation's executeGremlin call rejected
CloseRejected ==
    \E i \in 1..Len(log) :
        log[i].step = "close" /\ log[i].input = gremlinQuery /\ ~log[i].choice.ok

\* C11: a failure of conn.close() never changes how executeGremlin ends: a
\* traversal that succeeded with R still returns R and the summary call is
\* issued; a traversal that failed with E still fails with E, not with the
\* close error, and E is what the response reports.
C11_CloseFailureKeepsOutcome ==
    (outcome # None /\ closeCalls > 0 /\ CloseRejected) =>
        /\ outcome = settled
        /\ (settled.ok /\ settled.v # Circular) =>
              /\ Len(calls) = 2
              /\ trace[4] = "executor:ok" /\ trace[5] = "model"
        /\ ~settled.ok =>
              /\ \A closed \in CloseOutcomes : ~closed.ok => outcome.error # closed.error
              /\ pc = "done"
              /\ Contains(response.answer.s, "Error: " \o ErrorText(settled.error))
              /\ \A closed \in CloseOutcomes :
                    ~closed.ok => ~Contains(response.answer.s, closed.error.message)

C11_Witness ==
    /\ pc = "done" /\ closeCalls = 1 /\ CloseRejected
    /\ conn = "closeFailed"
    /\ settled = Thrown(ErrorObj("connection refused"))
    /\ outcome = settled
    /\ Contains(response.answer.s, "Error: connection refused")

\* C12: a close event with code 1006 while the traversal is in flight or the
\* connection is being closed makes executeGremlin fail and the caller gets
\* the traversal-failure response with the listener's error; the error does
\* not escape the invocation. Close events with another code raise no error.
C12_PrematureCloseReported ==
    /\ (closeEvents = <<PrematureClose>>) =>
          /\ uncaught = None
          /\ pc # "crashed"
          /\ Finished =>
                /\ pc = "done"
                /\ response = TraversalFailure(gremlinQuery,
                                  ErrorObj("Connection closed prematurely"))
    /\ (closeEvents # <<>> /\ closeEvents # <<PrematureClose>>) => uncaught = None

\* the reply of the model service to the k-th model call of this invocation
ReplyTo(k) ==
    LET i == CHOOSE i \in 1..Len(log) :
                 log[i].step = "model" /\ log[i].input = calls[k]
    IN  log[i].choice

\* the k-th model call was answered without usable text
EmptyReply(k) ==
    /\ k <= Len(calls)
    /\ \E i \in 1..Len(log) : log[i].step = "model" /\ log[i].input = calls[k]
    /\ ReplyTo(k).kind = "response"
    /\ ReplyTo(k).content \in EmptyContents

\* C13: when the model service returns no usable text on the first or on the
\* second model call, the caller receives the generic failure response that
\* embeds "Empty response from Bedrock", with query and data null.
C13_EmptyModelReply ==
    \A k \in 1..2 :
        (Finished /\ EmptyReply(k) /\ k = Len(calls)) =>
            /\ pc = "done"
            /\ thrown = None
            /\ response =
                  [answer |-> Str("Sorry, I encountered an error processing your question: "
                                  \o "Empty response from Bedrock"),
                   query |-> JNull,
                   data |-> JNull]
            /\ k = 1 => execCalls = 0
            /\ k = 2 => summary = Undef

C13_Witness ==
    /\ pc = "done" /\ Len(calls) = 2 /\ EmptyReply(2)
    /\ outcome # None /\ outcome.ok
    /\ response.query = JNull /\ response.data = JNull
    /\ Contains(response.answer.s, "Empty response from Bedrock")

\* C14: every returned response has an answer that is a non-empty text.
C14_AnswerIsNonEmptyText ==
    (pc = "done") => (IsStr(response.answer) /\ response.answer.s # "")

\* C15: with a model service and a graph database that answer equal requests
\* equally, a later invocation on the same question and history ends exactly
\* as the earlier one did: the same response, or the same exception.
C15_RepeatedInvocationSameResponse ==
    (Finished /\ run > 1) =>
        \A earlier \in 1..(run - 1) :
            previous[earlier] = [response |-> response, thrown |-> thrown]

C15_Witness ==
    /\ run = 2 /\ pc = "done" /\ Len(calls) = 2
    /\ summary # Undef
    /\ response.answer = summary
    /\ response.data # JNull
    /\ previous[1].response = response
    /\ previous[1].thrown = None

\* how many entries of the trace are the event e
Count(e) == Cardinality({i \in 1..Len(trace) : trace[i] = e})

\* C17: in one invocation the external calls are issued in the order first
\* model call, then (only after a directive that asks for a query) one
\* traversal execution, then (only after that execution succeeded) the second
\* model call; each call is issued after the one before it has settled, the
\* model is called at most twice and the executor at most once, and nothing
\* is issued after a call that failed.
C17_CallOrder ==
    /\ Len(trace) <= 6
    /\ Len(trace) >= 1 => trace[1] = "model"
    /\ Len(trace) >= 2 => trace[2] \in {"model:ok", "model:failed"}
    /\ Len(trace) >= 3 =>
          /\ trace[3] = "executor"
          /\ trace[2] = "model:ok"
          /\ CanGet(parsed) /\ Truthy(Get(parsed, "needsQuery"))
    /\ Len(trace) >= 4 => trace[4] \in {"executor:ok", "executor:failed"}
    /\ Len(trace) >= 5 => trace[5] = "model" /\ trace[4] = "executor:ok"
    /\ Len(trace) >= 6 => trace[6] \in {"model:ok", "model:failed"}
    /\ Count("model") = Len(calls) /\ Len(calls) <= 2
    /\ Count("executor") = execCalls /\ execCalls <= 1
    /\ Len(evaluated) <= execCalls
    /\ pc \in {"model1", "model2"} <=> Len(trace) \in {1, 5}
    /\ pc \in {"try", "await", "finally", "closing"} => Len(trace) = 3

C17_Witness ==
    /\ pc = "done"
    /\ trace = <<"model", "model:ok", "executor", "executor:ok", "model", "model:ok">>
    /\ Len(calls) = 2 /\ execCalls = 1 /\ Len(evaluated) = 1

\* C18: a graph connection exists only during the traversal step: none is
\* open while a model call is pending or when the invocation starts or has
\* ended, each executeGremlin call opens one connection of its own, and none
\* is carried over into a later invocation.
C18_ConnectionOnlyDuringTraversal ==
    /\ pc \in {"start", "model1", "model2", "done", "threw"} =>
          conn \in {"none", "closed"}
    /\ opened <= execCalls
    /\ leaked = 0

\* C19 as stated: whenever a traversal was evaluated, the response's query is
\* the evaluated text "g."+F, and when the traversal succeeded its data is
\* the serialized result, also when a later step of the invocation failed.
C19_QueryKeptAfterLaterFailure ==
    (pc = "done" /\ evaluated # <<>>) =>
        /\ response.query = Str(evaluated[1])
        /\ (outcome.ok /\ outcome.v # Circular) =>
              response.data = PrettyPrinted(outcome.v)

\* C19: whenever a traversal was evaluated and the handler returned: after a
\* failed traversal the query is "g."+F and the data null; after a traversal
\* that succeeded and a summary call that returned, the query is "g."+F and
\* the data the serialized result; after a traversal that succeeded and a
\* later step that failed (serializing, or the summary call), the response is
\* the generic failure, with query and data null.
C19_QueryAndDataAfterEvaluation ==
    (pc = "done" /\ evaluated # <<>>) =>
        /\ evaluated[1] = QueryText(gremlinQuery)
        /\ ~outcome.ok =>
              /\ response.query = Str(evaluated[1])
              /\ response.data = JNull
        /\ (outcome.ok /\ summary # Undef) =>
              /\ response.query = Str(evaluated[1])
              /\ response.data = PrettyPrinted(outcome.v)
        /\ (outcome.ok /\ summary = Undef) =>
              /\ response.query = JNull
              /\ response.data = JNull
              /\ Contains(response.answer.s,
                          "Sorry, I encountered an error processing your question: ")

C19_Witness ==
    /\ pc = "done" /\ evaluated # <<>>
    /\ outcome # None /\ outcome.ok /\ outcome.v = Num(42)
    /\ Len(calls) = 2 /\ summary = Undef
    /\ response.query = JNull /\ response.data = JNull

\* the lists of roles of the serialized turn lists in Histories
RoleSequences == UNION {[1..n -> TurnRoles] : n \in 0..MaxHistory}

\* each list of roles with the history argument serialized from it
HistoryOf == {[roles |-> r, history |-> JsonStringify(TurnList(r))] : r \in RoleSequences}

\* the first turn with role user, or one past the last turn
FirstUser(r) ==
    IF \E i \in 1..Len(r) : r[i] = "user"
    THEN CHOOSE i \in 1..Len(r) : r[i] = "user" /\ \A j \in 1..(i - 1) : r[j] # "user"
    ELSE Len(r) + 1

\* turns FirstUser(r)..Len(r) of the history with roles r, in order, each
\* with its own content and its role mapped, then the question
ExpectedTurns(r, question) ==
    [j \in 1..(Len(r) - FirstUser(r) + 2) |->
        IF j = Len(r) - FirstUser(r) + 2
        THEN [role |-> "user", content |-> question]
        ELSE [role |-> IF r[FirstUser(r) + j - 1] = "user" THEN "user" ELSE "assistant",
              content |-> Str("t" \o ToString(FirstUser(r) + j - 1))]]

\* C20: the messages of the first model call are the history turns in their
\* order, roles mapped to user or assistant, without the leading non-user
\* turns, followed by the question as the last turn with role user; the
\* list is never empty.
C20_FirstCallMessages ==
    (calls # <<>>) =>
        /\ Len(calls[1]) >= 1
        /\ calls[1][Len(calls[1])] = [role |-> "user", content |-> event.question]
        /\ \A i \in 1..Len(calls[1]) : calls[1][i].role \in {"user", "assistant"}
        /\ \A h \in HistoryOf :
              (event.history = h.history) =>
                  calls[1] = ExpectedTurns(h.roles, event.question)

C20_Witness ==
    /\ calls # <<>>
    /\ [roles |-> <<"user", "system">>, history |-> event.history] \in HistoryOf
    /\ Len(calls[1]) = 3
    /\ calls[1][2] = [role |-> "assistant", content |-> Str("t2")]
    /\ calls[1][3].content = event.question

\* the handler has processed the Delete request
DeleteHandled ==
    /\ epc = "idle"
    /\ handled # <<>> /\ handled[Len(handled)] = "Delete"
    /\ result # None

\* C16: after the handler processed a Delete request, no subscription that
\* its Create and Update requests created is left on the topic, confirmed
\* or pending.
C16_DeleteRemovesCreated ==
    DeleteHandled => \A e \in subscribed : Holding(topic, e) = {}

\* the two turns the handler adds for the summary call: the query that was
\* evaluated, then the text of the result with the request for a summary
SummaryTurns(queryText, resultText) ==
    <<[role |-> "assistant",
       content |-> Str("I executed the Gremlin query: " \o queryText)],
      [role |-> "user",
       content |-> Str("The query returned these results: "
                       \o (IF resultText = Undef THEN "undefined" ELSE resultText.s)
                       \o "\n\nPlease provide a clear, concise natural language summary of these results to answer my original question. Do not return JSON, just a plain text answer.")]>>

\* C21: the messages of the second model call are the messages of the first
\* call followed by exactly two turns, an assistant turn stating the
\* evaluated query "g."+F and a user turn carrying the serialized result and
\* the request for a plain-text summary; the first-call list is unchanged.
C21_SummaryCallMessages ==
    (Len(calls) = 2) =>
        /\ outcome # None /\ outcome.ok
        /\ Len(calls[2]) = Len(calls[1]) + 2
        /\ SubSeq(calls[2], 1, Len(calls[1])) = calls[1]
        /\ calls[2][Len(calls[1]) + 1].role = "assistant"
        /\ calls[2][Len(calls[1]) + 2].role = "user"
        /\ QueryNeeded =>
              calls[2] = calls[1] \o SummaryTurns("g." \o Fragment, PrettyPrinted(outcome.v))
        /\ messages = calls[1]

C21_Witness ==
    /\ Len(calls) = 2 /\ Len(calls[1]) = 3 /\ Len(calls[2]) = 5
    /\ QueryNeeded /\ Fragment = "V().count().next()"
    /\ outcome = Returned(Arr(<<Str("Doctor1"), Str("Doctor \"2\"")>>))
    /\ calls[2][4].content = Str("I executed the Gremlin query: g.V().count().next()")
    /\ calls[2][5].role = "user"

\* the part of a reply from its first { to its last }, when the last } comes
\* after the first {
HasBraces(t) ==
    \E i \in 1..Len(t) : \E j \in (i + 1)..Len(t) : Ch(t, i) = "{" /\ Ch(t, j) = "}"
BracePart(t) ==
    SubSeq(t, Least({i \in 1..Len(t) : Ch(t, i) = "{"}),
              Greatest({j \in 1..Len(t) : Ch(t, j) = "}"}))

\* for each model reply: whether it has such a part, what parsing the part
\* gives, and what parsing the whole reply gives
DecodedReplies ==
    {[text |-> t,
      braces |-> HasBraces(t),
      part |-> IF HasBraces(t) THEN JsonParse(BracePart(t)) ELSE Fail,
      whole |-> JsonParse(t)] : t \in ModelReplies}
ReplyDecoded == CHOOSE d \in DecodedReplies : d.text = bedrockResponse

\* C22 as stated: a reply whose brace-delimited part is not valid JSON is
\* parsed as a whole before the fallback is taken, so when the whole reply is
\* JSON the handler goes on with the value it decodes to.
C22_WholeReplyTriedAfterPart ==
    (bedrockResponse # "" /\ ReplyDecoded.braces /\ ~ReplyDecoded.part.ok
                          /\ ReplyDecoded.whole.ok) =>
        parsed = ReplyDecoded.whole.v

\* C22 amended: a reply with a part from its first { to its last } is decoded
\* from that part alone, and the fallback with the raw text is taken as soon
\* as the part does not parse; the whole reply is parsed only when it has no
\* such part; the fallback is taken when the one parse attempted fails.
\* Where the part fails and the whole reply is JSON, the response is the one
\* decoding the whole reply would have given.
C22_DecodingOrder ==
    (bedrockResponse # "") =>
        /\ (ReplyDecoded.braces /\ ReplyDecoded.part.ok) =>
              parsed = ReplyDecoded.part.v
        /\ (ReplyDecoded.braces /\ ~ReplyDecoded.part.ok) =>
              /\ parsed = Undef
              /\ pc = "done"
              /\ response = [answer |-> Str(bedrockResponse), query |-> JNull,
                             data |-> JNull]
              /\ ReplyDecoded.whole.ok =>
                    response = DirectAnswer(ReplyDecoded.whole.v, bedrockResponse)
        /\ (~ReplyDecoded.braces /\ ReplyDecoded.whole.ok) =>
              parsed = ReplyDecoded.whole.v
        /\ (~ReplyDecoded.braces /\ ~ReplyDecoded.whole.ok) =>
              /\ parsed = Undef
              /\ pc = "done"
              /\ response = [answer |-> Str(bedrockResponse), query |-> JNull,
                             data |-> JNull]

C22_Witness ==
    /\ pc = "done"
    /\ bedrockResponse = "\"a {quoted} string\""
    /\ ReplyDecoded.braces /\ ~ReplyDecoded.part.ok
    /\ ReplyDecoded.whole.ok /\ ReplyDecoded.whole.v = Str("a {quoted} string")
    /\ parsed = Undef
    /\ response.answer = Str("\"a {quoted} string\"")

\* the other invocation has ended
OtherFinished == suspended.pc \in {"done", "threw"}

\* C23: of two invocations interleaved in one process on the same event,
\* with a model service and a database that answer equal requests equally,
\* each ends as it would alone: both end the same way, neither is kept from
\* ending by what happens in the other, and the event is not modified.
C23_InterleavedAsAlone ==
    (suspended # None) =>
        /\ event = suspended.event
        /\ (Finished /\ OtherFinished) =>
              (response = suspended.response /\ thrown = suspended.thrown)
        /\ (uncaught # None) => OtherFinished

\* the handler has returned from, or failed, a Create or Update request
\* whose parameter held addresses
SubscribeHandled ==
    /\ epc = "idle" /\ result # None
    /\ request # None /\ request.RequestType \in {"Create", "Update"}
    /\ emails # <<>>

\* the Subscribe calls of this request that succeeded
Succeeded == SelectSeq(snsCalls, LAMBDA c : c.ok)

\* C24: a failed Subscribe call does not stop subscribeEmails: every address
\* is attempted exactly once, in order; the returned list holds exactly the
\* ARNs of the calls that succeeded; the request succeeds and reports
\* SubscriptionCount equal to the number of successes.
C24_SubscribeFailuresSkipped ==
    /\ (epc = "subscribing") =>
          /\ Len(snsCalls) = cursor - 1
          /\ \A i \in 1..Len(snsCalls) :
                snsCalls[i].op = "Subscribe" /\ snsCalls[i].arg = emails[i]
          /\ Len(subscriptionArns) = Len(Succeeded)
    /\ SubscribeHandled =>
          /\ Len(snsCalls) = Len(emails)
          /\ \A i \in 1..Len(snsCalls) :
                snsCalls[i].op = "Subscribe" /\ snsCalls[i].arg = emails[i]
          /\ Len(subscriptionArns) = Len(Succeeded)
          /\ \A k \in 1..Len(Succeeded) :
                subscriptionArns[k] \in {"pending confirmation",
                                         TopicArn \o ":" \o Succeeded[k].arg}
          /\ result.ok
          /\ result.v.Data.SubscriptionCount = Len(Succeeded)
          /\ result.v.Data.SubscriptionArns = Join(subscriptionArns, ",")
          /\ result.v.Data.Emails = Join(emails, ",")

C24_Witness ==
    /\ SubscribeHandled
    /\ emails = <<"a@x.org", "b@x.org">>
    /\ Len(snsCalls) = 2 /\ ~snsCalls[1].ok /\ snsCalls[2].ok
    /\ result.ok /\ result.v.Data.SubscriptionCount = 1
    /\ result.v.Data.Emails = "a@x.org,b@x.org"
    /\ subscriptionArns = <<"pending confirmation">>

\* ssm.send failed with ParameterNotFound
NotFound ==
    /\ parameter.kind = "reject"
    /\ (parameter.error.name = "ParameterNotFound"
        \/ parameter.error.Code = "ParameterNotFound")

\* the parameter holds no address
NoAddress ==
    /\ parameter.kind = "response"
    /\ parameter.value \in {Undef, Str(""), Str(" , ")}

\* C25: in the copy of src/unnamed/part_001, on Create or Update: when the
\* read fails with ParameterNotFound or the parameter holds no address, no
\* Subscribe call is made and the request succeeds with SubscriptionCount 0;
\* when the read fails with another error, the request fails with an error
\* naming the parameter and no Subscribe call is made.
C25_ParameterReadOutcomes ==
    (variant = "part_001" /\ parameter # None) =>
        /\ request.RequestType \in {"Create", "Update"}
        /\ (NotFound \/ NoAddress) =>
              /\ epc = "idle"
              /\ snsCalls = <<>>
              /\ result.ok
              /\ result.v.Data = [SubscriptionCount |-> 0, Emails |-> ""]
        /\ (parameter.kind = "reject" /\ ~NotFound) =>
              /\ epc = "idle"
              /\ snsCalls = <<>>
              /\ ~result.ok
              /\ result.error.message =
                    "Failed to read parameter /neptune/notification/emails: "
                    \o parameter.error.message
        /\ (parameter.kind = "response" /\ ~NoAddress) =>
              (emails # <<>> /\ (epc = "idle" => result.ok))

C25_Witness ==
    /\ variant = "part_001"
    /\ handled = <<"Create">>
    /\ parameter # None /\ NotFound /\ parameter.error.Code = "ParameterNotFound"
    /\ epc = "idle" /\ result.ok
    /\ result.v.Data.SubscriptionCount = 0
    /\ snsCalls = <<>> /\ topic = <<>>

\* the Unsubscribe calls of this request
Unsubscribes == SelectSeq(snsCalls, LAMBDA c : c.op = "Unsubscribe")

\* the entries of emailSubscriptions up to position n that are not skipped
Attempted(n) ==
    SelectSeq(SubSeq(emailSubscriptions, 1, n), LAMBDA arn : arn # "pending confirmation")

\* C26: a Delete request always succeeds: a failed listing or a failed
\* Unsubscribe call is not raised, the entries after it are still attempted,
\* entries with the ARN "pending confirmation" are skipped without a call,
\* and only subscriptions with protocol email are unsubscribed.
C26_DeleteAlwaysSucceeds ==
    /\ (epc = "unsubscribing") =>
          /\ Len(Unsubscribes) = Len(Attempted(cursor - 1))
          /\ \A k \in 1..Len(Unsubscribes) :
                Unsubscribes[k].arg = Attempted(cursor - 1)[k]
    /\ DeleteHandled =>
          /\ result.ok
          /\ result.v = [PhysicalResourceId |-> request.PhysicalResourceId]
          /\ snsCalls[1].op = "ListSubscriptionsByTopic"
          /\ Len(snsCalls) = 1 + Len(Unsubscribes)
          /\ ~snsCalls[1].ok => Len(snsCalls) = 1
          /\ Len(Unsubscribes) = Len(Attempted(Len(emailSubscriptions)))
          /\ \A k \in 1..Len(Unsubscribes) :
                Unsubscribes[k].arg = Attempted(Len(emailSubscriptions))[k]
    /\ \A k \in 1..Len(Unsubscribes) :
          /\ Unsubscribes[k].arg # "pending confirmation"
          /\ Unsubscribes[k].arg # TopicArn \o ":alarm-queue"
    /\ \A s \in InitialTopics : \A i \in 1..Len(s) :
          (Len(topic) >= i /\ topic[i].Protocol = "sqs") => topic[i] = s[i]

C26_Witness ==
    /\ DeleteHandled /\ result.ok
    /\ Len(emailSubscriptions) = 2
    /\ Len(snsCalls) = 3
    /\ snsCalls[2].op = "Unsubscribe" /\ ~snsCalls[2].ok
    /\ snsCalls[3].op = "Unsubscribe" /\ snsCalls[3].ok
    /\ Len(topic) = 2 /\ topic[1].Protocol = "sqs"

\* C27 as stated: in every response, data is non-null only if query is
\* non-null, and query is non-null only if a traversal was actually
\* evaluated in this invocation.
C27_QueryOnlyAfterEvaluation ==
    (pc = "done") =>
        /\ (response.data \notin {JNull, Undef}) => response.query # JNull
        /\ (response.query # JNull) => evaluated # <<>>

\* C27 amended: in every response, data is non-null only if query is
\* non-null, and query is non-null only if executeGremlin was called in this
\* invocation (it may have failed before a traversal reached the database);
\* the guidance, direct-answer, parse-fallback and generic-failure responses
\* have query = null and data = null.
C27_QueryOnlyAfterExecution ==
    (pc = "done") =>
        /\ (response.data \notin {JNull, Undef}) => response.query # JNull
        /\ (response.query # JNull) =>
              /\ execCalls = 1
              /\ outcome # None
              /\ response.query = Str("g." \o JsToString(gremlinQuery))
        /\ (execCalls = 0) => (response.query = JNull /\ response.data = JNull)
        /\ (response = Guidance \/ outcome = None
            \/ Contains(response.answer.s, "Sorry, I encountered an error")) =>
              (response.query = JNull /\ response.data = JNull)

C27_Witness ==
    /\ pc = "done"
    /\ response.query = Str("g.V().count().next()") /\ response.data = JNull
    /\ execCalls = 1 /\ opened = 0 /\ evaluated = <<>>
    /\ outcome = Thrown(ErrorObj("Invalid URL"))

\* C28: provided each external call eventually returns or fails, every
\* invocation of handler terminates with a response.
C28_TerminatesWithResponse == <>(pc = "done" /\ response # None)

\* the ids the handler makes up when the request carries none
GeneratedIds == {Str("email-subscriber-" \o ToString(now)) : now \in Timestamps}

\* the request at hand has returned a result
RequestSucceeded == epc = "idle" /\ result # None /\ result.ok

\* C29: a request that carries a PhysicalResourceId (Update, Delete, any
\* other type) gets that id back unchanged on every successful path; an id
\* is generated only for the request that carries none, the Create; so the
\* id recorded for the resource, once set, never changes.
C29_OnePhysicalId ==
    /\ [](RequestSucceeded =>
            /\ physicalId = result.v.PhysicalResourceId
            /\ IF Truthy(request.PhysicalResourceId)
               THEN result.v.PhysicalResourceId = request.PhysicalResourceId
               ELSE /\ request.RequestType = "Create"
                    /\ result.v.PhysicalResourceId \in GeneratedIds)
    /\ [][physicalId # Undef => physicalId' = physicalId]_vars

\* a Create that generated an id, an Update and a Delete, all successful
C29_Witness ==
    /\ handled = <<"Create", "Update", "Delete">>
    /\ RequestSucceeded
    /\ request.PhysicalResourceId = Str("email-subscriber-1000")
    /\ result.v.PhysicalResourceId = Str("email-subscriber-1000")
    /\ physicalId = Str("email-subscriber-1000")

====
